---- MODULE Spec2Model ----
(***************************************************************************)
(* A model of UnifiedDBManager (src/utils/UnifiedDBManager.js): the        *)
(* connection lifecycle (init / _performInit / _createStores), the         *)
(* transaction wrapper (_dbOperation and get/getAll/put/delete/count) and  *)
(* the import-time data migration (migrateData and its steps).             *)
(*                                                                         *)
(* The IndexedDB engine is the environment: its events (success, error,    *)
(* upgradeneeded, complete, abort) are actions whose effect on the manager *)
(* is the handler the source registers for them.                           *)
(***************************************************************************)
EXTENDS Integers, Sequences, FiniteSets, TLC

(***************************************************************************)
(* Bounds of the model                                                     *)
(***************************************************************************)
MaxCalls == 4        \* calls made on the manager in one behaviour
MaxOpens == 2        \* indexedDB.open requests in one behaviour
MaxTxCalls == 2      \* SpecTx: calls of the transaction wrapper in one behaviour
MaxKey == 1          \* primary keys 1..MaxKey
MaxVal == 2          \* record payloads 1..MaxVal
MaxMissing == 2      \* SpecUpgrade: stores missing from, or present in, a prior layout
MaxUpgradeRuns == 2
MaxImports == 2
MaxStepRuns == 2      \* SpecSteps: calls of one migration step on one snapshot
MaxFile == 3         \* file ids 1..MaxFile
MaxOps == 2          \* activations of file operations in one behaviour
MaxRetries == 5      \* SpecRetry: maxRetries 0..MaxRetries
MaxEvents == 2       \* SpecWait: publications of the peer context
MaxKeys == 3         \* SpecKeys: longest apiKeys list
MaxKeyOps == 2       \* SpecKeys: calls in one behaviour

(***************************************************************************)
(* Program constants                                                       *)
(***************************************************************************)
version == 14        \* this.version

CallIds == 1..MaxCalls
TxCallIds == 1..MaxTxCalls
OpenIds == 1..MaxOpens
Keys == 1..MaxKey
Vals == 1..MaxVal

\* JavaScript's undefined / null for values that are otherwise records.
Undefined == [undefined |-> TRUE]

\* An error value: who created it and its name or message.
NoError == [type |-> "none", name |-> ""]
DOMException(n) == [type |-> "DOMException", name |-> n]
Error(msg) == [type |-> "Error", name |-> msg]

\* Errors the engine can report for an open request.
OpenErrors == {DOMException("UnknownError"), DOMException("AbortError")}
\* Errors the engine can report for a request or a transaction.
EngineErrors == {DOMException("DataError"), DOMException("QuotaExceededError")}

(***************************************************************************)
(* SchemaRegistry: this.stores, in declaration order                       *)
(***************************************************************************)
StoreOrder ==
  << "songs", "contacts", "apiSettings", "emojis", "emojiImages", "backgrounds",
     "userProfile", "moments", "weiboPosts", "hashtagCache", "characterMemories",
     "conversationCounters", "globalMemory", "memoryProcessedIndex", "fileStorage",
     "fileReferences", "themeConfig", "imageUsageMetadata" >>

StoreNames == {StoreOrder[i] : i \in 1..Len(StoreOrder)}

keyPathOf(s) ==
  CASE s = "emojiImages" -> "tag"
    [] s \in {"characterMemories", "memoryProcessedIndex"} -> "contactId"
    [] s \in {"fileStorage", "imageUsageMetadata"} -> "fileId"
    [] s = "fileReferences" -> "referenceId"
    [] s = "themeConfig" -> "type"
    [] OTHER -> "id"

stores ==
  [s \in StoreNames |->
     [keyPath |-> keyPathOf(s), autoIncrement |-> s \in {"songs", "weiboPosts"}]]

\* The store removed at version 12.
RemovedStore == "bubbleDesignerStickers"

\* lines 169-182: the createIndex calls _createStores makes on a store it
\* has just created.
IndexesOf(s) ==
  CASE s = "fileReferences" -> {"category", "fileId"}
    [] s = "imageUsageMetadata" -> {"usageType", "category", "createdAt"}
    [] OTHER -> {}

VARIABLES
  db,          \* this.db: 0 (null) or the id of the connection object
  isReady,     \* this.isReady
  initPromise, \* this.initPromise: 0 (null) or the id of the open attempt
  openReq,     \* the IDBOpenDBRequest of every attempt and its promise
  calls,       \* every call made on the manager and where it stands
  persisted,   \* the physical database: its version and object stores
  dbStatus,    \* localStorage.dbStatus: Undefined or the published status
  data,        \* the records of the physical stores
  txQueue,     \* live transactions, in creation order
  upgrade,     \* the _createStores runs: how many, and what the last one did
  mig          \* the activation of importDatabase or exportDatabase, or the file manager

vars == << db, isReady, initPromise, openReq, calls, persisted, dbStatus, data,
           txQueue, upgrade, mig >>

(***************************************************************************)
(* Values                                                                  *)
(***************************************************************************)
\* The connection object produced by open attempt a (request.result).
Conn(a) == [connection |-> a]

\* The Error that request.onerror builds from the engine's error e.
OpenFailed(e) == Error("open failed: " \o e.name)

NoCall ==
  [op |-> "none", pc |-> "idle", path |-> "none", attempt |-> 0,
   store |-> "", key |-> 0, val |-> Undefined,
   value |-> Undefined, error |-> NoError,
   tx |-> "none", txOpens |-> 0, requests |-> 0,
   request |-> "none", operationResult |-> Undefined, before |-> Undefined,
   txError |-> NoError, dbAtTx |-> 0, txSeq |-> 0, at |-> Undefined]

NoRequest == [state |-> "none", error |-> NoError, upgrades |-> 0, prior |-> Undefined]

\* The number of indexedDB.open calls made so far.
OpenCount == Cardinality({a \in OpenIds : openReq[a].state # "none"})

\* The number of _createStores runs so far.
RECURSIVE SumUpgrades(_)
SumUpgrades(S) ==
  IF S = {} THEN 0
  ELSE LET a == CHOOSE x \in S : TRUE IN openReq[a].upgrades + SumUpgrades(S \ {a})
UpgradeCount == SumUpgrades(OpenIds)

Settled(c) == calls[c].pc \in {"resolved", "rejected"}
Issued(c) == calls[c].op # "none"

\* What a call sees of the manager at the moment it is made (history only:
\* no action reads it).
Snapshot ==
  [db |-> db, isReady |-> isReady, initPromise |-> initPromise,
   resolved |-> {d \in CallIds : calls[d].pc = "resolved"},
   owners |-> {d \in CallIds : calls[d].pc = "owner"},
   failed |-> {a \in OpenIds : openReq[a].state = "error"}]

NewCall(op) == [NoCall EXCEPT !.op = op, !.at = Snapshot]

(***************************************************************************)
(* _createStores(db, oldVersion): the structural upgrade                   *)
(***************************************************************************)
contains(layout, s) == s \in DOMAIN layout

Without(layout, s) == [x \in (DOMAIN layout) \ {s} |-> layout[x]]

EngineCall(op, s, existed) == [call |-> op, name |-> s, existed |-> existed]

\* line 155: the removed store is dropped only when it is present.
ShouldDropAlways(layout) == TRUE
ShouldDrop(layout) == contains(layout, RemovedStore)

\* line 163: a declared store is created only when it is absent.
ShouldCreateAlways(layout, s) == TRUE
ShouldCreate(layout, s) == ~contains(layout, s)

\* lines 165-182: createObjectStore(storeName, config) and the createIndex
\* calls that follow it for fileReferences and imageUsageMetadata.
CreatedStoreNoIndexes(s) ==
  [keyPath |-> stores[s].keyPath, autoIncrement |-> stores[s].autoIncrement,
   indexes |-> {}]
CreatedStore(s) ==
  [keyPath |-> stores[s].keyPath, autoIncrement |-> stores[s].autoIncrement,
   indexes |-> IndexesOf(s)]

\* lines 162-189: the forEach over Object.entries(this.stores).  The engine's
\* createObjectStore throws ConstraintError for a name that exists; the throw
\* leaves the loop (lines 184-187, 193-196).
RECURSIVE CreateLoop(_, _, _)
CreateLoop(layout, log, i) ==
  IF i > Len(StoreOrder)
  THEN [layout |-> layout, log |-> log, threw |-> FALSE]
  ELSE LET s == StoreOrder[i] IN
       IF ShouldCreate(layout, s)
       THEN IF contains(layout, s)
            THEN [layout |-> layout,
                  log |-> Append(log, EngineCall("createObjectStore", s, TRUE)),
                  threw |-> TRUE]
            ELSE CreateLoop(layout @@ (s :> CreatedStore(s)),
                            Append(log, EngineCall("createObjectStore", s, FALSE)),
                            i + 1)
       ELSE CreateLoop(layout, log, i + 1)

\* lines 148-197.  The engine's deleteObjectStore throws NotFoundError for a
\* name that does not exist.
_createStores(layout) ==
  IF version >= 12 /\ ShouldDrop(layout)
  THEN IF contains(layout, RemovedStore)
       THEN CreateLoop(Without(layout, RemovedStore),
                       << EngineCall("deleteObjectStore", RemovedStore, TRUE) >>, 1)
       ELSE [layout |-> layout,
             log |-> << EngineCall("deleteObjectStore", RemovedStore, FALSE) >>,
             threw |-> TRUE]
  ELSE CreateLoop(layout, << >>, 1)

(***************************************************************************)
(* Physical databases a page can find when it opens                        *)
(***************************************************************************)
\* The sticker store as version 11 created it.
StickerStore == [keyPath |-> "id", autoIncrement |-> FALSE, indexes |-> {}]
LayoutOf(S) == [s \in S |-> IF s = RemovedStore THEN StickerStore ELSE CreatedStore(s)]

\* Never opened before.
FreshDatabase == [version |-> 0, stores |-> LayoutOf({})]
\* Left by version 11: the sticker store exists, the usage metadata does not.
Version11Database ==
  [version |-> 11, stores |-> LayoutOf((StoreNames \ {"imageUsageMetadata"}) \cup {RemovedStore})]
\* Already at the current version.
CurrentDatabase == [version |-> version, stores |-> LayoutOf(StoreNames)]
\* Left by a newer build of the application: the open fails with VersionError.
NewerDatabase == [version |-> version + 1, stores |-> LayoutOf(StoreNames)]

PriorDatabases == {FreshDatabase, Version11Database, CurrentDatabase, NewerDatabase}

(***************************************************************************)
(* syncToGlobal(): publish readiness                                       *)
(***************************************************************************)
\* lines 212-218: the status record written to localStorage; this.db.version
\* is the version of the open connection.
PublishedStatus == [isReady |-> TRUE, version |-> version]
syncToGlobal == dbStatus' = PublishedStatus

(***************************************************************************)
(* init()                                                                  *)
(***************************************************************************)
\* line 85
AlreadyInitializedNever == FALSE
AlreadyInitialized == isReady /\ db # 0

\* line 92
InitInFlightNever == FALSE
InitInFlight == initPromise # 0

\* The slot of the next call: calls are numbered in the order they are made.
NextCall(c) ==
  /\ calls[c].op = "none"
  /\ \A d \in CallIds : d < c => calls[d].op # "none"

\* lines 83-99, as run by call c whose record is rec: return the cached
\* connection, join the attempt in flight, or start one with _performInit
\* (line 116, indexedDB.open).
EnterInit(c, rec) ==
  IF AlreadyInitialized
  THEN /\ syncToGlobal
       /\ calls' = [calls EXCEPT ![c] =
            [rec EXCEPT !.pc = "resolved", !.path = "cached", !.value = Conn(db)]]
       /\ UNCHANGED << initPromise, openReq >>
  ELSE IF InitInFlight
  THEN /\ calls' = [calls EXCEPT ![c] =
            [rec EXCEPT !.pc = "waiter", !.path = "joined", !.attempt = initPromise]]
       /\ UNCHANGED << initPromise, openReq, dbStatus >>
  ELSE /\ OpenCount < MaxOpens
       /\ LET a == OpenCount + 1 IN
          /\ openReq' = [openReq EXCEPT ![a] = [NoRequest EXCEPT !.state = "pending"]]
          /\ initPromise' = a
          /\ calls' = [calls EXCEPT ![c] =
               [rec EXCEPT !.pc = "owner", !.path = "opened", !.attempt = a]]
       /\ UNCHANGED dbStatus

\* A caller calls init().
init(c) ==
  /\ NextCall(c)
  /\ EnterInit(c, NewCall("init"))
  /\ UNCHANGED << db, isReady, persisted, data, txQueue, upgrade, mig >>

(***************************************************************************)
(* _performInit(): the handlers of the open request                        *)
(***************************************************************************)
\* lines 137-141: request.onupgradeneeded runs _createStores inside the
\* engine's versionchange transaction.  An exception thrown by the handler
\* aborts that transaction, and the request then fails with AbortError.
onupgradeneeded(a) ==
  /\ openReq[a].state = "pending"
  /\ persisted.version < version
  /\ LET r == _createStores(persisted.stores) IN
     /\ upgrade' = [runs |-> upgrade.runs + 1, before |-> persisted.stores,
                     log |-> r.log, threw |-> r.threw]
     /\ IF r.threw
        THEN /\ openReq' = [openReq EXCEPT ![a].state = "aborting",
                                           ![a].upgrades = @ + 1,
                                           ![a].prior = persisted]
             /\ UNCHANGED persisted
        ELSE /\ openReq' = [openReq EXCEPT ![a].state = "upgraded",
                                           ![a].upgrades = @ + 1,
                                           ![a].prior = persisted]
             /\ persisted' = [version |-> version, stores |-> r.layout]
  /\ UNCHANGED << db, isReady, initPromise, calls, dbStatus, data, txQueue, mig >>

\* The open request can succeed once the database is at the requested version.
CanSucceed(a) ==
  \/ openReq[a].state = "upgraded"
  \/ openReq[a].state = "pending" /\ persisted.version = version

\* lines 124-135: request.onsuccess.
onsuccess(a) ==
  /\ CanSucceed(a)
  /\ db' = a
  /\ isReady' = TRUE
  /\ syncToGlobal
  /\ openReq' = [openReq EXCEPT ![a].state = "success"]
  /\ UNCHANGED << initPromise, calls, persisted, data, txQueue, upgrade, mig >>

\* The errors the engine can give the open request in its present state.
OpenErrorsFor(a) ==
  IF openReq[a].state = "aborting" THEN {DOMException("AbortError")}
  ELSE IF openReq[a].state = "pending" /\ persisted.version > version
       THEN {DOMException("VersionError")}
       ELSE OpenErrors

\* lines 118-122: request.onerror.  A failed upgrade is rolled back by the
\* engine.
onerror(a, e) ==
  /\ openReq[a].state \in {"pending", "upgraded", "aborting"}
  /\ e \in OpenErrorsFor(a)
  /\ openReq' = [openReq EXCEPT ![a].state = "error", ![a].error = OpenFailed(e)]
  /\ persisted' = IF openReq[a].state = "upgraded" THEN openReq[a].prior ELSE persisted
  /\ UNCHANGED << db, isReady, initPromise, calls, dbStatus, data, txQueue, upgrade, mig >>

(***************************************************************************)
(* _dbOperation(storeName, mode, operation, description)                   *)
(***************************************************************************)
ModeOf(op) == IF op \in {"put", "delete"} THEN "readwrite" ELSE "readonly"

\* The key the engine extracts from a record put into store s: the value at
\* the key path the store was created with.
KeyOf(s, record) == record[persisted.stores[s].keyPath]

\* The records a caller can put into store s.
RecordsOf(s) ==
  {[f \in {stores[s].keyPath, "v"} |-> IF f = "v" THEN x ELSE k] : k \in Keys, x \in Vals}

\* The stores the whole-store reads of this model name: a declared one and the
\* removed one, for which db.transaction throws NotFoundError.
CallerStores == {"contacts", RemovedStore}

\* Results of requests, as values.
Number(n) == [number |-> n]
Array(seq) == [array |-> seq]

\* line 356
NeedsInitNever == FALSE
NeedsInit == db = 0

\* The number of transactions created so far on the connection.
TxCount == Cardinality({d \in CallIds : calls[d].txOpens > 0})

\* lines 360-370: this.db.transaction([storeName], mode) and operation(store).
\* The engine throws NotFoundError for a store that does not exist, and the
\* catch of lines 394-397 rejects with what was thrown.  A null this.db
\* throws a TypeError at the same place.
OpenTransaction(c, rec) ==
  IF db = 0
  THEN /\ calls' = [calls EXCEPT ![c] =
            [rec EXCEPT !.pc = "rejected", !.error = Error("TypeError")]]
       /\ UNCHANGED txQueue
  ELSE IF ~contains(persisted.stores, rec.store)
  THEN /\ calls' = [calls EXCEPT ![c] =
            [rec EXCEPT !.pc = "rejected", !.error = DOMException("NotFoundError")]]
       /\ UNCHANGED txQueue
  ELSE /\ calls' = [calls EXCEPT ![c] =
            [rec EXCEPT !.pc = "tx", !.tx = "active", !.txOpens = @ + 1,
                        !.request = "pending", !.requests = @ + 1, !.dbAtTx = db,
                        !.txSeq = TxCount + 1]]
       /\ txQueue' = Append(txQueue, c)

\* lines 355-363: a call of the transaction wrapper.
_dbOperation(c, rec) ==
  /\ NextCall(c)
  /\ IF NeedsInit
     THEN /\ EnterInit(c, rec)
          /\ UNCHANGED txQueue
     ELSE /\ OpenTransaction(c, rec)
          /\ UNCHANGED << initPromise, openReq, dbStatus >>
  /\ UNCHANGED << db, isReady, persisted, data, upgrade >>

\* lines 404-406
get(c, s, k) ==
  /\ _dbOperation(c, [NewCall("get") EXCEPT !.store = s, !.key = k])
  /\ UNCHANGED mig
\* lines 411-413
getAll(c, s) ==
  /\ _dbOperation(c, [NewCall("getAll") EXCEPT !.store = s])
  /\ UNCHANGED mig
\* lines 418-427
put(c, s, record) ==
  /\ _dbOperation(c, [NewCall("put") EXCEPT !.store = s, !.val = record])
  /\ UNCHANGED mig
\* lines 432-441
delete(c, s, k) ==
  /\ _dbOperation(c, [NewCall("delete") EXCEPT !.store = s, !.key = k])
  /\ UNCHANGED mig
\* lines 446-448
count(c, s) ==
  /\ _dbOperation(c, [NewCall("count") EXCEPT !.store = s])
  /\ UNCHANGED mig

(***************************************************************************)
(* The continuation of `await this.initPromise` (lines 94, 102-107)        *)
(***************************************************************************)
\* line 103 and line 106: what the owner of the attempt leaves in initPromise.
KeepInitPromise == initPromise
AfterSuccess == 0
AfterFailure == 0

\* The reactions of a promise run in the order they were registered: the call
\* that created the attempt (line 102) is resumed before the calls that
\* joined it (line 94).
settle(c) ==
  /\ calls[c].pc \in {"owner", "waiter"}
  /\ LET a == calls[c].attempt IN
     /\ openReq[a].state \in {"success", "error"}
     /\ calls[c].pc = "waiter" =>
          ~\E o \in CallIds : calls[o].pc = "owner" /\ calls[o].attempt = a
     /\ initPromise' =
          IF calls[c].pc = "owner"
          THEN IF openReq[a].state = "success" THEN AfterSuccess ELSE AfterFailure
          ELSE initPromise
     /\ IF openReq[a].state = "error"
        THEN /\ calls' = [calls EXCEPT ![c].pc = "rejected", ![c].error = openReq[a].error]
             /\ UNCHANGED txQueue
        ELSE IF calls[c].op = "init"
        THEN /\ calls' = [calls EXCEPT ![c].pc = "resolved", ![c].value = Conn(a)]
             /\ UNCHANGED txQueue
        ELSE OpenTransaction(c, calls[c])
  /\ UNCHANGED << db, isReady, openReq, persisted, dbStatus, data, upgrade, mig >>

(***************************************************************************)
(* The events of a transaction and its request                             *)
(***************************************************************************)
\* The engine runs the transactions of a connection in creation order.
Running(c) == txQueue # << >> /\ Head(txQueue) = c

RECURSIVE RecordsFrom(_, _)
RecordsFrom(contents, k) ==
  IF k > MaxKey THEN << >>
  ELSE (IF contents[k] = Undefined THEN << >> ELSE << contents[k] >>)
       \o RecordsFrom(contents, k + 1)

\* request.result of the request of call c.
RequestResult(c) ==
  LET r == calls[c] IN
  CASE r.op = "get" -> data[r.store][r.key]
    [] r.op = "getAll" -> Array(RecordsFrom(data[r.store], 1))
    [] r.op = "count" -> Number(Len(RecordsFrom(data[r.store], 1)))
    [] r.op = "put" -> Number(KeyOf(r.store, r.val))
    [] OTHER -> Undefined

\* The store's records once the request of call c has run.
RequestEffect(c) ==
  LET r == calls[c] IN
  CASE r.op = "put" -> [data EXCEPT ![r.store][KeyOf(r.store, r.val)] = r.val]
    [] r.op = "delete" -> [data EXCEPT ![r.store][r.key] = Undefined]
    [] OTHER -> data

\* lines 372-393: a readonly call settles on its request's success event, a
\* readwrite call only records the result (lines 377-379).
ResolvesOnSuccessAlways(mode) == TRUE
ResolvesOnSuccess(mode) == mode = "readonly"

\* The request's success event: lines 388 (readonly), 423/437 and 377-379
\* (readwrite).
request_onsuccess(c) ==
  /\ Running(c)
  /\ calls[c].tx = "active"
  /\ data' = RequestEffect(c)
  /\ calls' = [calls EXCEPT
       ![c].tx = "done",
       ![c].request = "success",
       ![c].before = data[calls[c].store],
       ![c].operationResult = RequestResult(c),
       ![c].pc = IF ResolvesOnSuccess(ModeOf(calls[c].op)) THEN "resolved" ELSE @,
       ![c].value = IF ResolvesOnSuccess(ModeOf(calls[c].op)) THEN RequestResult(c) ELSE @]
  /\ UNCHANGED << db, isReady, initPromise, openReq, persisted, dbStatus, txQueue,
                  upgrade, mig >>

\* lines 389, 424/438 with 379, and 365-368: what the call rejects with when
\* its request fails with e.
WrappedError(e) == Error("operation failed: " \o e.name)
RejectionOf(e) == e

\* The request's error event; it bubbles to the transaction (lines 365-368),
\* which then aborts.
request_onerror(c, e) ==
  /\ Running(c)
  /\ calls[c].tx = "active"
  /\ e \in EngineErrors
  /\ calls' = [calls EXCEPT ![c].tx = "aborted", ![c].txError = e,
                            ![c].request = "error",
                            ![c].pc = "rejected", ![c].error = RejectionOf(e)]
  /\ txQueue' = Tail(txQueue)
  /\ UNCHANGED << db, isReady, initPromise, openReq, persisted, dbStatus, data,
                  upgrade, mig >>

\* lines 381-383: transaction.oncomplete, the commit.  A readonly call has
\* settled already.
transaction_oncomplete(c) ==
  /\ Running(c)
  /\ calls[c].tx = "done"
  /\ calls' = [calls EXCEPT
       ![c].tx = "complete",
       ![c].pc = IF @ = "tx" THEN "resolved" ELSE @,
       ![c].value = IF calls[c].pc = "tx" THEN calls[c].operationResult ELSE @]
  /\ txQueue' = Tail(txQueue)
  /\ UNCHANGED << db, isReady, initPromise, openReq, persisted, dbStatus, data,
                  upgrade, mig >>

\* The commit of a readwrite transaction fails (quota, I/O): the engine rolls
\* the store back and fires abort at the transaction, with no error event.
\* _dbOperation registers no onabort handler (lines 365-383), so nothing in
\* the call changes.
transaction_onabort(c) ==
  /\ Running(c)
  /\ calls[c].tx = "done"
  /\ ModeOf(calls[c].op) = "readwrite"
  /\ data' = [data EXCEPT ![calls[c].store] = calls[c].before]
  /\ calls' = [calls EXCEPT ![c].tx = "aborted",
                            ![c].txError = DOMException("QuotaExceededError")]
  /\ txQueue' = Tail(txQueue)
  /\ UNCHANGED << db, isReady, initPromise, openReq, persisted, dbStatus,
                  upgrade, mig >>

(***************************************************************************)
(* Initial states                                                          *)
(***************************************************************************)
\* The stores whose records the model keeps.
DataStores ==
  {"contacts", "imageUsageMetadata", "emojis", "fileReferences", "moments", "apiSettings"}
EmptyStore == [k \in Keys |-> Undefined]
NoMigration ==
  [pc |-> "idle", importData |-> Undefined, options |-> Undefined,
   heap |-> << >>, migratedData |-> 0, steps |-> << >>, work |-> << >>, call |-> 0,
   todo |-> << >>, tx |-> Undefined, txOpens |-> 0, results |-> << >>,
   result |-> Undefined, round |-> 0, prev |-> Undefined, migrateCalled |-> FALSE,
   before |-> Undefined,
   liveBefore |-> Undefined, migrated |-> FALSE, caught |-> FALSE,
   error |-> NoError]
NoUpgrade == [runs |-> 0, before |-> Undefined, log |-> << >>, threw |-> FALSE]

\* The manager as its constructor leaves it (lines 25-78).
NewManager ==
  /\ db = 0
  /\ isReady = FALSE
  /\ initPromise = 0
  /\ openReq = [a \in OpenIds |-> NoRequest]
  /\ calls = [c \in CallIds |-> NoCall]
  /\ txQueue = << >>
  /\ upgrade = NoUpgrade
  /\ mig = NoMigration

(***************************************************************************)
(* Spec: the connection lifecycle                                          *)
(***************************************************************************)
Init ==
  /\ NewManager
  /\ persisted \in PriorDatabases
  /\ dbStatus = Undefined
  /\ data = [s \in DataStores |-> EmptyStore]

Next ==
  \/ \E c \in CallIds : init(c)
  \/ \E a \in OpenIds : onupgradeneeded(a)
  \/ \E a \in OpenIds : onsuccess(a)
  \/ \E a \in OpenIds, e \in OpenErrors \cup {DOMException("VersionError")} : onerror(a, e)
  \/ \E c \in CallIds : settle(c)

Spec == Init /\ [][Next]_vars

(***************************************************************************)
(* SpecTx: the transaction wrapper on a database at the current version    *)
(***************************************************************************)
InitTx ==
  /\ NewManager
  /\ persisted = CurrentDatabase
  /\ dbStatus = Undefined
  /\ data = [s \in DataStores |-> EmptyStore]

NextTx ==
  \/ \E c \in TxCallIds, k \in Keys : get(c, "contacts", k)
  \/ \E c \in TxCallIds, s \in CallerStores : getAll(c, s)
  \/ \E c \in TxCallIds, r \in RecordsOf("contacts") : put(c, "contacts", r)
  \/ \E c \in TxCallIds, k \in Keys : delete(c, "contacts", k)
  \/ \E c \in TxCallIds, s \in CallerStores : count(c, s)
  \/ \E a \in OpenIds : onsuccess(a)
  \/ \E a \in OpenIds, e \in OpenErrors : onerror(a, e)
  \/ \E c \in CallIds : settle(c)
  \/ \E c \in CallIds : request_onsuccess(c)
  \/ \E c \in CallIds, e \in EngineErrors : request_onerror(c, e)
  \/ \E c \in CallIds : transaction_oncomplete(c)
  \/ \E c \in CallIds : transaction_onabort(c)

SpecTx == InitTx /\ [][NextTx]_vars

(***************************************************************************)
(* Claims about the connection lifecycle (Spec)                            *)
(***************************************************************************)
InitCalls == {c \in CallIds : calls[c].op = "init"}

\* C1: init() calls made before the first call of their wave has settled
\* start no second open request (the call that found no attempt in flight
\* started the only one), the structural upgrade runs at most once for the
\* request, and once the attempt has succeeded every call of the wave
\* resolves to the connection object of that one request.
C1_OneOpenPerWave ==
  /\ \A a \in OpenIds :
       /\ openReq[a].upgrades <= 1
       /\ Cardinality({c \in InitCalls : calls[c].path = "opened" /\ calls[c].attempt = a})
            = IF openReq[a].state = "none" THEN 0 ELSE 1
  /\ \A c \in InitCalls :
       /\ Cardinality(calls[c].at.owners) <= 1
       /\ \A o \in calls[c].at.owners :
            /\ calls[c].path # "opened"
            /\ calls[c].path = "joined" => calls[c].attempt = calls[o].attempt
            /\ calls[c].pc = "resolved" => calls[c].value = Conn(calls[o].attempt)
            /\ calls[o].pc = "resolved" /\ Settled(c) =>
                 calls[c].pc = "resolved" /\ calls[c].value = calls[o].value

\* C1's case: three calls of one wave have resolved, after an upgrade.
C1_Witness ==
  /\ UpgradeCount = 1
  /\ \E o \in InitCalls :
       /\ calls[o].path = "opened" /\ calls[o].pc = "resolved"
       /\ \E c, d \in InitCalls :
            /\ c # d
            /\ o \in calls[c].at.owners /\ calls[c].pc = "resolved" /\ calls[c].path = "joined"
            /\ o \in calls[d].at.owners /\ calls[d].pc = "resolved" /\ calls[d].path = "cached"

\* C2: once an init() call has resolved, every later init() call resolves at
\* once with the cached connection, which is the connection every resolved
\* call got, and no open request (hence no upgrade) is started after the one
\* that succeeded.
C2_CachedAfterResolve ==
  /\ (\E c \in InitCalls : calls[c].pc = "resolved") =>
       /\ db # 0
       /\ \A a \in OpenIds : a > db => openReq[a].state = "none" /\ openReq[a].upgrades = 0
       /\ \A c \in InitCalls : calls[c].pc = "resolved" => calls[c].value = Conn(db)
  /\ \A c \in InitCalls :
       calls[c].at.resolved # {} =>
         calls[c].path = "cached" /\ calls[c].pc = "resolved" /\ calls[c].at.db = db

\* C2's case: a call made after another one resolved has returned.
C2_Witness ==
  \E c, d \in InitCalls :
    /\ d \in calls[c].at.resolved
    /\ calls[c].pc = "resolved"
    /\ calls[c].value = calls[d].value
    /\ OpenCount = 1

\* Every attempt is failed and its owner has been resumed.
AllAttemptsFailed ==
  /\ \E a \in OpenIds : openReq[a].state = "error"
  /\ \A a \in OpenIds : openReq[a].state \in {"none", "error"}
  /\ \A c \in CallIds : calls[c].pc # "owner"

\* C3: when an open attempt fails, every init() call that awaited it rejects
\* with the Error built from the engine's failure; while no attempt has
\* succeeded the manager is not ready, holds no connection and has published
\* no status; initPromise is null once the call that started the failed
\* attempt has been resumed; and an init() call made then starts a new open
\* request.
C3_FailureClearsAndRetries ==
  /\ \A c \in InitCalls :
       LET a == calls[c].attempt IN
       /\ a # 0 /\ openReq[a].state = "error" =>
            /\ calls[c].pc # "resolved"
            /\ calls[c].pc = "rejected" =>
                 /\ calls[c].error = openReq[a].error
                 /\ \E e \in OpenErrors \cup {DOMException("VersionError")} :
                      calls[c].error = OpenFailed(e)
       /\ calls[c].at.failed # {} /\ calls[c].at.owners = {} /\ calls[c].at.db = 0 =>
            /\ calls[c].path = "opened"
            /\ a \notin calls[c].at.failed
            /\ openReq[a].state # "none"
  /\ (\A a \in OpenIds : openReq[a].state # "success") =>
       ~isReady /\ db = 0 /\ dbStatus = Undefined
  /\ AllAttemptsFailed => initPromise = 0

\* C3's case: an attempt failed after its upgrade, the call that started it
\* and a call that joined it were rejected, and a later call opened again.
C3_Witness ==
  \E c, d, r \in InitCalls :
    /\ calls[c].path = "opened" /\ calls[c].pc = "rejected"
    /\ calls[d].path = "joined" /\ calls[d].attempt = calls[c].attempt
    /\ calls[d].pc = "rejected"
    /\ openReq[calls[c].attempt].upgrades = 1
    /\ calls[c].attempt \in calls[r].at.failed
    /\ calls[r].path = "opened"

(***************************************************************************)
(* Claims about the transaction wrapper (SpecTx)                           *)
(***************************************************************************)
OpCalls == {c \in CallIds : calls[c].op \notin {"none", "init"}}
WriteCalls == {c \in OpCalls : ModeOf(calls[c].op) = "readwrite"}

\* A readwrite call is resolved only by its transaction's complete event.
ResolvedOnlyOnComplete ==
  \A c \in WriteCalls : calls[c].pc = "resolved" => calls[c].tx = "complete"

\* C4: a readwrite call resolves only after its transaction's complete
\* event, never on the request's success event alone, and when the
\* transaction fails after the request succeeded the call rejects.
C4_ResolveOnCommitElseReject ==
  /\ ResolvedOnlyOnComplete
  /\ \A c \in WriteCalls :
       calls[c].request = "success" /\ calls[c].tx = "aborted" => calls[c].pc = "rejected"

\* C5: a get(store, k) made after put(store, v) resolved returns v, where k
\* is v's key, unless a later put or delete of key k came between the two:
\* one whose transaction was created after the put's and before the get's.
\* (The engine runs the transactions of a store in creation order; a put
\* called before put(store, v) while init() was pending can create its
\* transaction after it and is then the later put.)
C5_PutThenGet ==
  \A p, g \in OpCalls :
    ( /\ calls[p].op = "put" /\ calls[g].op = "get"
      /\ calls[p].store = calls[g].store
      /\ p \in calls[g].at.resolved
      /\ calls[p].val[stores[calls[p].store].keyPath] = calls[g].key
      /\ calls[g].pc = "resolved"
      /\ ~\E w \in OpCalls :
           /\ calls[p].txSeq < calls[w].txSeq /\ calls[w].txSeq < calls[g].txSeq
           /\ calls[w].store = calls[p].store
           /\ \/ calls[w].op = "delete" /\ calls[w].key = calls[g].key
              \/ calls[w].op = "put"
                   /\ calls[w].val[stores[calls[w].store].keyPath] = calls[g].key )
    => calls[g].value = calls[p].val

\* C5's case: a get made after a put resolved has returned a record.
C5_Witness ==
  \E p, g \in OpCalls :
    /\ calls[p].op = "put" /\ calls[g].op = "get"
    /\ p \in calls[g].at.resolved
    /\ calls[g].pc = "resolved"
    /\ calls[g].value = calls[p].val
    /\ calls[g].value # Undefined

\* The engine has reported a failure of the transaction or request of call c.
EngineFailed(c) == calls[c].request = "error" \/ calls[c].tx = "aborted"

\* C6: when the engine reports a failure for the transaction or request of a
\* get/getAll/put/delete/count call, the call rejects with the engine's error
\* value itself, and the operation was issued exactly once.
C6_FailuresSurfaceVerbatim ==
  \A c \in OpCalls :
    EngineFailed(c) =>
      /\ calls[c].pc = "rejected"
      /\ calls[c].error = calls[c].txError
      /\ calls[c].txOpens = 1 /\ calls[c].requests = 1

\* What does hold of failures: a failed request rejects the call with the
\* engine's error, nothing is retried, and no failure becomes a result.
RequestFailuresSurfaceVerbatim ==
  \A c \in OpCalls :
    /\ calls[c].txOpens <= 1 /\ calls[c].requests <= 1
    /\ calls[c].request = "error" =>
         calls[c].pc = "rejected" /\ calls[c].error = calls[c].txError
    /\ EngineFailed(c) => calls[c].pc # "resolved"

\* C7: a get/getAll/put/delete/count call made while this.db is null runs
\* init() first; its transaction is opened only on a connection, after the
\* attempt it awaited succeeded; and when that attempt fails the call
\* rejects with init()'s error and opens no transaction.
C7_InitBeforeTransaction ==
  \A c \in OpCalls :
    LET a == calls[c].attempt IN
    /\ calls[c].at.db = 0 => calls[c].path \in {"joined", "opened"} /\ a # 0
    /\ calls[c].txOpens > 0 =>
         /\ calls[c].dbAtTx # 0
         /\ a # 0 => openReq[a].state = "success" /\ calls[c].dbAtTx = a
    /\ a # 0 /\ openReq[a].state # "success" => calls[c].txOpens = 0
    /\ a # 0 /\ openReq[a].state = "error" /\ calls[c].pc \notin {"owner", "waiter"} =>
         calls[c].pc = "rejected" /\ calls[c].error = openReq[a].error

\* C7's case: one call opened its transaction after the init() it started
\* resolved, and another was rejected by a failed init() without one.
C7_Witness ==
  \E c, d \in OpCalls :
    /\ calls[c].path = "opened" /\ calls[c].txOpens = 1
    /\ openReq[calls[c].attempt].state = "success"
    /\ calls[d].path = "opened" /\ calls[d].pc = "rejected" /\ calls[d].txOpens = 0
    /\ openReq[calls[d].attempt].state = "error"

(***************************************************************************)
(* SpecUpgrade: the structural upgrade on prior layouts                    *)
(***************************************************************************)
\* Every name a physical database of this application can hold.
PhysicalNames == StoreNames \cup {RemovedStore}

\* A store as an older version may have created it: without indexes.
LegacyStore(s) ==
  [keyPath |-> IF s = RemovedStore THEN "id" ELSE stores[s].keyPath,
   autoIncrement |-> IF s = RemovedStore THEN FALSE ELSE stores[s].autoIncrement,
   indexes |-> {}]

\* The prior layouts: at most MaxMissing stores present, or at most
\* MaxMissing stores missing, each as created now or as a legacy store.
PriorLayouts ==
  LET few == {S \in SUBSET PhysicalNames : Cardinality(S) <= MaxMissing}
      sets == few \cup {PhysicalNames \ S : S \in few}
  IN  {LayoutOf(S) : S \in sets} \cup {[s \in S |-> LegacyStore(s)] : S \in sets}

InitUpgrade ==
  /\ NewManager
  /\ \E layout \in PriorLayouts, v \in {0, 11, 13} :
       persisted = [version |-> v, stores |-> layout]
  /\ dbStatus = Undefined
  /\ data = [s \in DataStores |-> EmptyStore]

\* lines 137-141 and 148-197: the engine calls the upgrade callback on the
\* database as it is; a later upgrade calls it again on its own result.
upgradeCallback ==
  /\ upgrade.runs < MaxUpgradeRuns
  /\ ~upgrade.threw
  /\ LET r == _createStores(persisted.stores) IN
     /\ upgrade' = [runs |-> upgrade.runs + 1, before |-> persisted.stores,
                    log |-> r.log, threw |-> r.threw]
     /\ persisted' = IF r.threw THEN persisted
                     ELSE [version |-> version, stores |-> r.layout]
  /\ UNCHANGED << db, isReady, initPromise, openReq, calls, dbStatus, data, txQueue, mig >>

NextUpgrade == upgradeCallback

SpecUpgrade == InitUpgrade /\ [][NextUpgrade]_vars

\* C8: after the upgrade callback has run on a prior layout, every declared
\* store that was absent exists with the registry's key path and
\* auto-increment flag and with its indexes (fileReferences: category,
\* fileId; imageUsageMetadata: usageType, category, createdAt; the others:
\* none), every declared store exists, and bubbleDesignerStickers is gone.
C8_UpgradeCreatesDeclared ==
  upgrade.runs > 0 =>
    /\ ~upgrade.threw
    /\ "bubbleDesignerStickers" \notin DOMAIN persisted.stores
    /\ \A s \in StoreNames :
         /\ s \in DOMAIN persisted.stores
         /\ s \notin DOMAIN upgrade.before =>
              /\ persisted.stores[s].keyPath = stores[s].keyPath
              /\ persisted.stores[s].autoIncrement = stores[s].autoIncrement
              /\ persisted.stores[s].indexes =
                   (IF s = "fileReferences" THEN {"category", "fileId"}
                    ELSE IF s = "imageUsageMetadata"
                         THEN {"usageType", "category", "createdAt"}
                         ELSE {})
         /\ s \in DOMAIN upgrade.before => persisted.stores[s] = upgrade.before[s]

\* C8's case: one run created the two indexed stores and an auto-increment
\* store and dropped the sticker store.
C8_Witness ==
  /\ upgrade.runs = 1
  /\ {"fileReferences", "imageUsageMetadata", "songs"} \cap DOMAIN upgrade.before = {}
  /\ "bubbleDesignerStickers" \in DOMAIN upgrade.before
  /\ persisted.stores["songs"].autoIncrement
  /\ persisted.stores["imageUsageMetadata"].indexes # {}

\* C9: the upgrade never asks the engine to create a store that exists or to
\* drop one that is absent, it raises no error, and run again on its own
\* result it makes no engine call and leaves the layout as it was.
C9_UpgradeIdempotent ==
  /\ ~upgrade.threw
  /\ \A i \in 1..Len(upgrade.log) :
       /\ upgrade.log[i].call = "createObjectStore" => ~upgrade.log[i].existed
       /\ upgrade.log[i].call = "deleteObjectStore" => upgrade.log[i].existed
  /\ upgrade.runs >= 2 => upgrade.log = << >> /\ persisted.stores = upgrade.before

\* C9's case: a second run, on a database where the first run had both
\* stores to leave alone and stores to create and the sticker store to drop.
C9_Witness ==
  /\ upgrade.runs = 2
  /\ Cardinality(DOMAIN persisted.stores) = Cardinality(StoreNames)
  /\ upgrade.log = << >>

(***************************************************************************)
(* Snapshots: the documents importDatabase is given                        *)
(***************************************************************************)
\* The top-level keys of a snapshot that the migration reads or writes.  A
\* key the document does not have holds Undefined; a collection is an Array.
SnapshotKeyOrder ==
  << "contacts", "apiSettings", "emojis", "moments", "characterMemories", "globalMemory",
     "fileStorage", "fileReferences", "themeConfig", "imageUsageMetadata",
     "bubbleDesignerStickers" >>
SnapshotKeys == {"_metadata"} \cup {SnapshotKeyOrder[i] : i \in DOMAIN SnapshotKeyOrder}

EmptySnapshot == [k \in SnapshotKeys |-> Undefined]

\* JavaScript truthiness of a top-level value: arrays and objects are truthy.
Truthy(x) == x # Undefined

\* A property that a record does not carry.
NoValue == "undefined"

EmojiChoices == {Undefined, Array(<< >>), Array(<< [id |-> 1, tag |-> "smile"] >>)}

\* A reference as an old snapshot holds it (referenceType) and as
\* createFileReference writes it (category only).
FileReferenceChoices ==
  {Undefined}
    \cup {Array(<< [referenceId |-> 1, referenceType |-> "emoji", category |-> "emoji",
                    referenceKey |-> "smile", fileId |-> f] >>) : f \in Keys}
    \cup {Array(<< [referenceId |-> 1, referenceType |-> NoValue, category |-> "emoji",
                    referenceKey |-> "smile", fileId |-> f] >>) : f \in Keys}

ImageIdLists == UNION {[1..n -> Keys] : n \in {0, 1, 2}}
MomentChoices ==
  {Undefined} \cup {Array(<< [id |-> 1, imageFileIds |-> ids] >>) : ids \in ImageIdLists}

(***************************************************************************)
(* APIConfigManager.saveConfig and exportDatabase                          *)
(***************************************************************************)
\* A credential a user enters, and the empty string of a field left blank.
Secret == "sk-secret"
Blank == ""

\* apiConfigManager.js lines 169-199: the apiKeys of the stored record, the
\* caller's array or one built from config.key.
ApiKeysOf(config) ==
  IF config.apiKeys # Undefined THEN config.apiKeys
  ELSE Array(<< [key |-> config.key, name |-> "main", enabled |-> TRUE, index |-> 0] >>)

\* apiConfigManager.js lines 203-214: the record saveConfig puts into
\* apiSettings.
ConfigData(config) ==
  [id |-> config.id, url |-> config.url, key |-> config.key,
   apiKeys |-> ApiKeysOf(config), configName |-> "unnamed", isDefault |-> FALSE]

\* The configurations a caller passes to saveConfig for the id k.
ConfigsFor(k) ==
  {[id |-> k, url |-> "https://api", key |-> x, apiKeys |-> a] :
     x \in {Blank, Secret},
     a \in {Undefined,
            Array(<< [key |-> Secret, name |-> "main", enabled |-> TRUE, index |-> 0] >>)}}

\* A settings record of the older format the export's clean-up names
\* (lines 502-503).
LegacySettings(k) == [id |-> k, url |-> "https://api", apiKey |-> Secret, password |-> Secret]

\* lines 499-505: the copy of an apiSettings record without its apiKey and
\* password, when they are set.
Sanitized(item) ==
  [f \in {g \in DOMAIN item : ~(g \in {"apiKey", "password"} /\ item[g] # Blank)} |-> item[f]]

RECURSIVE MapSanitized(_)
MapSanitized(items) ==
  IF items = << >> THEN << >> ELSE << Sanitized(Head(items)) >> \o MapSanitized(Tail(items))

\* An export that reads no record.
ExportNoRecords(storeName, contents) == << >>

\* lines 488-513: exportStore(storeName) on a store holding contents.
exportStore(storeName, contents) ==
  LET result == RecordsFrom(contents, 1)
  IN  IF storeName = "apiSettings" THEN MapSanitized(result) ELSE result

\* lines 517-528: getDatabaseInfo().
getDatabaseInfo(database) ==
  [name |-> "WhaleLLTDB", version |-> database.version, stores |-> DOMAIN database.stores,
   exportTime |-> "now"]

\* The options of exportDatabase (line 458): stores is null or a list of
\* names.
DefaultExportOptions == [stores |-> Undefined, includeMetadata |-> TRUE]
ExportOptions ==
  [stores : {Undefined, Array(<< "apiSettings" >>)}, includeMetadata : BOOLEAN]

\* lines 458-477: what exportDatabase(options) returns on a database that is
\* not written to meanwhile.  A snapshot of the model carries the keys of
\* SnapshotKeyOrder; a store outside DataStores holds no records.
ExportData(database, contents, options) ==
  [k \in SnapshotKeys |->
     IF k = "_metadata"
     THEN (IF options.includeMetadata THEN getDatabaseInfo(database) ELSE Undefined)
     ELSE IF options.stores # Undefined /\ \A i \in DOMAIN options.stores.array :
                                             options.stores.array[i] # k
     THEN Undefined
     ELSE IF ~contains(database.stores, k) THEN Undefined
     ELSE Array(exportStore(k, IF k \in DataStores THEN contents[k] ELSE EmptyStore))]

\* A record of store s with key k, as the application writes it.
SourceRecord(s, k) ==
  CASE s = "apiSettings" -> ConfigData([id |-> k, url |-> "https://api", key |-> Secret,
                                        apiKeys |-> Undefined])
    [] s = "emojis" -> [id |-> k, tag |-> "smile"]
    [] OTHER -> [id |-> k, v |-> 1]

\* The stores that hold records in the databases snapshots are exported from.
SourceStores == {"contacts", "emojis", "apiSettings"}

\* Contents of a database: nothing, or some records in one store.
NoRecords == [s \in DataStores |-> EmptyStore]
Sources ==
  {NoRecords}
    \cup {[NoRecords EXCEPT ![s] = [k \in Keys |-> IF k \in K THEN SourceRecord(s, k)
                                                   ELSE Undefined]] :
            s \in SourceStores, K \in (SUBSET Keys) \ {{}}}

\* Versions a snapshot can record: two old ones, the one before the current,
\* the current one and a newer one.
SnapshotVersions == {4, 8, version - 1, version, version + 1}

\* What a hand-made or older snapshot holds besides its version: nothing, an
\* emoji with its file reference, or a moment with its images.
SnapshotContents ==
  {[emojis |-> Undefined, fileReferences |-> Undefined, moments |-> Undefined]}
    \cup {[emojis |-> e, fileReferences |-> r, moments |-> Undefined] :
            e \in EmojiChoices \ {Undefined, Array(<< >>)},
            r \in FileReferenceChoices \ {Undefined}}
    \cup {[emojis |-> Undefined, fileReferences |-> Undefined, moments |-> m] :
            m \in MomentChoices \ {Undefined}}

SnapshotOf(v, c) ==
  [EmptySnapshot EXCEPT !._metadata = [version |-> v], !.emojis = c.emojis,
                        !.fileReferences = c.fileReferences, !.moments = c.moments]

\* The documents importDatabase is given: null, a document without
\* _metadata, a bare snapshot of each version, snapshots of the version
\* before the current one with contents, and exports of the current version.
ExportedSnapshots == {ExportData(CurrentDatabase, src, DefaultExportOptions) : src \in Sources}
Snapshots ==
  {Undefined, [EmptySnapshot EXCEPT !.emojis = Array(<< >>)]}
    \cup {SnapshotOf(v, c) : v \in SnapshotVersions,
                             c \in {x \in SnapshotContents : x.emojis = Undefined /\ x.moments = Undefined}}
    \cup {SnapshotOf(version - 1, c) : c \in SnapshotContents}
    \cup ExportedSnapshots

ImportOptions == [overwrite : BOOLEAN, validateVersion : BOOLEAN, enableMigration : BOOLEAN]

(***************************************************************************)
(* migrateData(importData) and its steps                                   *)
(***************************************************************************)
\* A step that leaves the snapshot as it is.
LeaveSnapshot(d) == d

\* A step that sets the memory collections to empty ones whatever it finds.
ResetMemories(d) ==
  [d EXCEPT !.characterMemories = Array(<< >>), !.globalMemory = Array(<< >>)]

\* lines 729-734
migrateFrom4To5(d) ==
  [d EXCEPT !.characterMemories = IF ~Truthy(@) THEN Array(<< >>) ELSE @,
            !.globalMemory = IF ~Truthy(@) THEN Array(<< >>) ELSE @]
\* lines 736-739
migrateFrom5To6(d) == d
\* lines 741-744
migrateFrom6To7(d) == d
\* lines 746-751
migrateFrom7To8(d) ==
  [d EXCEPT !.fileStorage = IF ~Truthy(@) THEN Array(<< >>) ELSE @,
            !.fileReferences = IF ~Truthy(@) THEN Array(<< >>) ELSE @]
\* lines 753-756
migrateFrom8To9(d) == d
\* lines 758-762
migrateFrom9To10(d) == [d EXCEPT !.themeConfig = IF ~Truthy(@) THEN Array(<< >>) ELSE @]
\* lines 764-767
migrateFrom10To11(d) == d
\* lines 769-775
migrateFrom11To12(d) ==
  [d EXCEPT !.bubbleDesignerStickers = IF Truthy(@) THEN Undefined ELSE @]
\* lines 777-780
migrateFrom12To13(d) == d

\* Objects live in a heap, a sequence of object contents; a reference is an
\* index into it.  line 666: JSON.parse(JSON.stringify(importData)) builds a
\* new object with the contents of the one at r.  The model's snapshots hold
\* numbers, strings, arrays and plain objects, which the round trip
\* reproduces; a key holding undefined stays absent.
SameObject(heap, r) == [heap |-> heap, ref |-> r]
JSONCopy(heap, r) ==
  [heap |-> Append(heap, [k \in DOMAIN heap[r] |-> heap[r][k]]), ref |-> Len(heap) + 1]

\* lines 674-719: the guard of the step for the boundary k -> k + 1.
StepGuardAlways(fromVersion, toVersion, k) == TRUE
StepGuard(fromVersion, toVersion, k) == fromVersion <= k /\ toVersion >= k + 1

\* The first and the last boundary migrateData has a step for (lines 674, 719).
FirstBoundary == 4
LastBoundary == 13

\* lines 676-716: the synchronous step for the boundary k -> k + 1.
SyncStep(k, d) ==
  CASE k = 4 -> migrateFrom4To5(d)
    [] k = 5 -> migrateFrom5To6(d)
    [] k = 6 -> migrateFrom6To7(d)
    [] k = 7 -> migrateFrom7To8(d)
    [] k = 8 -> migrateFrom8To9(d)
    [] k = 9 -> migrateFrom9To10(d)
    [] k = 10 -> migrateFrom10To11(d)
    [] k = 11 -> migrateFrom11To12(d)
    [] k = 12 -> migrateFrom12To13(d)

\* lines 674-717: the guarded steps in the order of the text, from boundary
\* k on, applied to the object d; log lists the boundaries whose step ran.
RECURSIVE RunChain(_, _, _, _, _)
RunChain(d, log, fromVersion, toVersion, k) ==
  IF k >= LastBoundary THEN [data |-> d, log |-> log]
  ELSE IF StepGuard(fromVersion, toVersion, k)
       THEN RunChain(SyncStep(k, d), Append(log, k), fromVersion, toVersion, k + 1)
       ELSE RunChain(d, log, fromVersion, toVersion, k + 1)

\* lines 658-717: the synchronous part of migrateData(importData), up to the
\* call of migrateFrom13To14, on the object at reference r.  The result is
\* the heap, the reference held by migratedData, and the steps that ran.
MigrateSteps(heap, r) ==
  LET importData == heap[r]
      fromVersion == IF Truthy(importData._metadata) THEN importData._metadata.version ELSE 1
      toVersion == version
      copy == JSONCopy(heap, r)
      d0 == [copy.heap[copy.ref] EXCEPT
               !._metadata = [version |-> toVersion, migrationTime |-> "now",
                              originalVersion |-> fromVersion]]
      chain == RunChain(d0, << >>, fromVersion, toVersion, FirstBoundary)
  IN  [heap |-> [copy.heap EXCEPT ![copy.ref] = chain.data], ref |-> copy.ref,
       log |-> chain.log, fromVersion |-> fromVersion, toVersion |-> toVersion]

\* lines 1004-1012: the record setImageUsageMetadata builds.
UsageData(fileId, usageType, metadata) ==
  [fileId |-> fileId, usageType |-> usageType, createdAt |-> metadata.createdAt,
   category |-> metadata.category, tags |-> metadata.tags, size |-> 0,
   fileName |-> metadata.fileName]

\* lines 797-800: the first reference of an emoji, by referenceType and key.
RECURSIVE FindEmojiFile(_, _, _)
FindEmojiFile(refs, tag, i) ==
  IF i > Len(refs) THEN Undefined
  ELSE IF refs[i].referenceType = "emoji" /\ refs[i].referenceKey = tag THEN refs[i]
  ELSE FindEmojiFile(refs, tag, i + 1)

\* lines 792-812: the setImageUsageMetadata calls made for the emojis.  The
\* emojis of Snapshots have an id and a tag, and file ids are positive, so the
\* truthiness tests of lines 795 and 802 reduce to the reference being found.
RECURSIVE EmojiBackfill(_, _)
EmojiBackfill(d, i) ==
  IF ~Truthy(d.emojis) \/ i > Len(d.emojis.array) THEN << >>
  ELSE LET emoji == d.emojis.array[i]
           refs == IF Truthy(d.fileReferences) THEN d.fileReferences.array ELSE << >>
           emojiFile == FindEmojiFile(refs, emoji.tag, 1)
       IN  (IF emojiFile # Undefined
            THEN << UsageData(emojiFile.fileId, "general",
                              [category |-> "emoji", tags |-> << emoji.tag >>,
                               createdAt |-> "now", fileName |-> emoji.tag]) >>
            ELSE << >>)
           \o EmojiBackfill(d, i + 1)

\* lines 819-827: the calls made for one moment's images.
RECURSIVE ImageBackfill(_, _)
ImageBackfill(moment, i) ==
  IF i > Len(moment.imageFileIds) THEN << >>
  ELSE << UsageData(moment.imageFileIds[i], "general",
                    [category |-> "moments", tags |-> << "moments", "unknown" >>,
                     createdAt |-> "now",
                     fileName |-> << "moment", moment.id, i >>]) >>
       \o ImageBackfill(moment, i + 1)

\* lines 815-830: the calls made for the moments.
RECURSIVE MomentBackfill(_, _)
MomentBackfill(d, i) ==
  IF ~Truthy(d.moments) \/ i > Len(d.moments.array) THEN << >>
  ELSE ImageBackfill(d.moments.array[i], 1) \o MomentBackfill(d, i + 1)

\* lines 786-830: the records migrateFrom13To14 passes, in order, to
\* setImageUsageMetadata, each of which is put into the live
\* imageUsageMetadata store (line 1014).
Backfill(d) == EmojiBackfill(d, 1) \o MomentBackfill(d, 1)

(***************************************************************************)
(* importDatabase(importData, options), up to the return of migrateData    *)
(***************************************************************************)
\* lines 586-589: the Error importDatabase rethrows; reading the message of
\* a null error throws a TypeError instead.
ImportFailed(e) ==
  IF e = Undefined THEN Error("TypeError") ELSE Error("import failed: " \o e.name)

\* migrateData has been called in this import (line 557).
MigrationRan == mig.migrateCalled

\* The snapshot migratedData refers to.
MigratedSnapshot == mig.heap[mig.migratedData]

\* An import that goes on to the stores whatever the document records.
ImportUnchecked(base, importData, options) ==
  [base EXCEPT !.importData = importData, !.options = options,
               !.heap = << importData >>, !.migratedData = 1,
               !.liveBefore = data, !.call = 0, !.pc = "stores"]

\* lines 547-561, and migrateData's lines 658-719: validate the document and
\* decide on the migration.  The result is the activation's next state.
ImportAfterInit(base, importData, options) ==
  LET m == [base EXCEPT !.importData = importData, !.options = options,
                       !.heap = << importData >>, !.migratedData = 1,
                       !.liveBefore = data, !.call = 0]
      r == MigrateSteps(<< importData >>, 1)
      last == StepGuard(r.fromVersion, r.toVersion, LastBoundary)
  IN
  IF ~Truthy(importData)
  THEN [m EXCEPT !.pc = "rejected", !.error = ImportFailed(Error("invalid format"))]
  ELSE IF Truthy(importData._metadata) /\ importData._metadata.version # version
  THEN IF options.enableMigration /\ importData._metadata.version < version
       THEN [m EXCEPT !.pc = (IF last THEN "migrateFrom13To14" ELSE "migrated"),
                      !.migrateCalled = TRUE,
                      !.heap = r.heap,
                      !.migratedData = r.ref,
                      !.steps = r.log \o (IF last THEN << LastBoundary >> ELSE << >>),
                      !.work = IF last THEN Backfill(r.heap[r.ref]) ELSE << >>]
       ELSE IF options.validateVersion
            THEN [m EXCEPT !.pc = "rejected",
                           !.error = ImportFailed(Error("version mismatch"))]
            ELSE [m EXCEPT !.pc = "stores"]
  ELSE [m EXCEPT !.pc = "stores"]

\* lines 534-561: importDatabase is called.  A later call is made when the
\* earlier one has settled, and repeats its arguments.
importDatabase(importData, options) ==
  /\ mig.pc \in {"idle", "resolved", "rejected"}
  /\ mig.round < MaxImports
  /\ mig.round > 0 => importData = mig.importData /\ options = mig.options
  /\ LET base == [NoMigration EXCEPT
                    !.round = mig.round + 1,
                    !.prev = IF mig.round = 0 THEN Undefined
                             ELSE [pc |-> mig.pc, result |-> mig.result]]
     IN
     IF db = 0
     THEN /\ \E c \in CallIds :
               /\ NextCall(c)
               /\ EnterInit(c, NewCall("init"))
               /\ mig' = [base EXCEPT !.pc = "init", !.call = c,
                                      !.importData = importData, !.options = options]
     ELSE /\ mig' = ImportAfterInit(base, importData, options)
          /\ UNCHANGED << initPromise, openReq, calls, dbStatus >>
  /\ UNCHANGED << db, isReady, persisted, data, txQueue, upgrade >>

\* lines 543-545 and 586-589: importDatabase resumes when init() has settled.
importDatabase_resume ==
  /\ mig.pc = "init"
  /\ Settled(mig.call)
  /\ mig' = IF calls[mig.call].pc = "rejected"
            THEN [mig EXCEPT !.pc = "rejected", !.error = ImportFailed(calls[mig.call].error)]
            ELSE ImportAfterInit(mig, mig.importData, mig.options)
  /\ UNCHANGED << db, isReady, initPromise, openReq, calls, persisted, dbStatus, data,
                  txQueue, upgrade >>

\* lines 803 and 821 with 1003-1014: the next setImageUsageMetadata call of
\* migrateFrom13To14, a put into the live store.
migrateFrom13To14_put ==
  /\ mig.pc = "migrateFrom13To14"
  /\ mig.work # << >>
  /\ \E c \in CallIds :
       /\ _dbOperation(c, [NewCall("put") EXCEPT !.store = "imageUsageMetadata",
                                                !.val = Head(mig.work)])
       /\ mig' = [mig EXCEPT !.pc = "setImageUsageMetadata", !.call = c]

\* lines 803/821 (await) and 833-836 (catch): the put has settled; a
\* rejection leaves the try block and is only logged.
migrateFrom13To14_resume ==
  /\ mig.pc = "setImageUsageMetadata"
  /\ Settled(mig.call)
  /\ mig' = IF calls[mig.call].pc = "rejected"
            THEN [mig EXCEPT !.pc = "migrateFrom13To14", !.work = << >>, !.caught = TRUE]
            ELSE [mig EXCEPT !.pc = "migrateFrom13To14", !.work = Tail(@)]
  /\ UNCHANGED << db, isReady, initPromise, openReq, calls, persisted, dbStatus, data,
                  txQueue, upgrade >>

\* lines 721-725 and 557: migrateFrom13To14 and migrateData return and
\* importDatabase goes on to the stores (lines 563-584).
migrateData_return ==
  /\ mig.pc \in {"migrateFrom13To14", "migrated"}
  /\ mig.work = << >>
  /\ mig' = [mig EXCEPT !.pc = "stores", !.migrated = TRUE]
  /\ UNCHANGED << db, isReady, initPromise, openReq, calls, persisted, dbStatus, data,
                  txQueue, upgrade >>

(***************************************************************************)
(* importDatabase, lines 563-584: clearing and writing the stores          *)
(***************************************************************************)
\* The transaction of the importDatabase activation in txQueue, numbered
\* after the calls of the wrapper.
ImportTx == MaxCalls + 1

\* line 564: Object.keys(migratedData) without _metadata.  The model lists
\* the keys in one fixed order.
StoresToImport(d) ==
  SelectSeq(SnapshotKeyOrder, LAMBDA k : d[k] # Undefined)

\* The records of store s; a store outside DataStores holds none in the model.
StoreContents(s) == IF s \in DataStores THEN data[s] ELSE EmptyStore
WithContents(s, contents) == IF s \in DataStores THEN [data EXCEPT ![s] = contents] ELSE data

\* lines 568-569: the names the clearing loop passes over.
RECURSIVE SkipForClear(_)
SkipForClear(todo) ==
  IF todo = << >> \/ contains(persisted.stores, Head(todo)) THEN todo
  ELSE SkipForClear(Tail(todo))

\* lines 577-578: the names the import loop passes over.
RECURSIVE SkipForImport(_, _)
SkipForImport(todo, d) ==
  IF todo = << >> \/ (contains(persisted.stores, Head(todo)) /\ Truthy(d[Head(todo)])) THEN todo
  ELSE SkipForImport(Tail(todo), d)

\* A transaction that starts without counting the records it is offered.
NewImportTxUncounted(kind, s, items) ==
  [kind |-> kind, store |-> s,
   state |-> IF kind = "import" /\ items = << >> THEN "done" ELSE "active",
   before |-> StoreContents(s),
   items |-> items, total |-> 0,
   addedCount |-> 0, skippedCount |-> 0, errorCount |-> 0]

\* A transaction the activation has just created on store s.
NewImportTx(kind, s, items) ==
  [kind |-> kind, store |-> s,
   state |-> IF kind = "import" /\ items = << >> THEN "done" ELSE "active",
   before |-> StoreContents(s),
   items |-> items, total |-> Len(items),
   addedCount |-> 0, skippedCount |-> 0, errorCount |-> 0]

\* lines 564-567: after validation and migration, the stores to import and
\* the first loop.
importDatabase_stores ==
  /\ mig.pc = "stores"
  /\ mig' = [mig EXCEPT !.pc = IF mig.options.overwrite THEN "clear" ELSE "import",
                        !.todo = StoresToImport(MigratedSnapshot)]
  /\ UNCHANGED << db, isReady, initPromise, openReq, calls, persisted, dbStatus, data,
                  txQueue, upgrade >>

\* lines 567-573 and 636-648: the next clearStore call, or the end of the
\* clearing loop.
clearStore ==
  /\ mig.pc = "clear"
  /\ LET todo == SkipForClear(mig.todo) IN
     IF todo = << >>
     THEN /\ mig' = [mig EXCEPT !.pc = "import", !.todo = StoresToImport(MigratedSnapshot)]
          /\ UNCHANGED txQueue
     ELSE /\ mig' = [mig EXCEPT !.pc = "clearStore", !.todo = todo,
                                !.txOpens = @ + 1,
                                !.tx = NewImportTx("clear", Head(todo), << >>)]
          /\ txQueue' = Append(txQueue, ImportTx)
  /\ UNCHANGED << db, isReady, initPromise, openReq, calls, persisted, dbStatus, data,
                  upgrade >>

\* line 584: what importDatabase resolves with.
ImportResult ==
  [success |-> TRUE, importedStores |-> StoresToImport(MigratedSnapshot),
   results |-> mig.results, migrated |-> mig.migratedData # 1]

\* lines 576-584 and 595-601: the next importStore call, or the return of
\* importDatabase.  forEach issues one request per record at once.
importStore ==
  /\ mig.pc = "import"
  /\ LET todo == SkipForImport(mig.todo, MigratedSnapshot) IN
     IF todo = << >>
     THEN /\ mig' = [mig EXCEPT !.pc = "resolved", !.todo = << >>, !.result = ImportResult]
          /\ UNCHANGED txQueue
     ELSE /\ mig' = [mig EXCEPT !.pc = "importStore", !.todo = todo,
                                !.txOpens = @ + 1,
                                !.tx = NewImportTx("import", Head(todo),
                                                   MigratedSnapshot[Head(todo)].array)]
          /\ txQueue' = Append(txQueue, ImportTx)
  /\ UNCHANGED << db, isReady, initPromise, openReq, calls, persisted, dbStatus, data,
                  upgrade >>

\* The request at the head of the activation's transaction is an add of a
\* key the store already holds.
DuplicateKey ==
  /\ mig.tx.kind = "import"
  /\ ~mig.options.overwrite
  /\ StoreContents(mig.tx.store)[KeyOf(mig.tx.store, Head(mig.tx.items))] # Undefined

\* lines 603-606: the success event of the next request of importStore (a
\* put under overwrite, an add otherwise), or of clearStore's clear request.
importTx_request_onsuccess ==
  /\ mig.pc \in {"clearStore", "importStore"}
  /\ Running(ImportTx)
  /\ mig.tx.state = "active"
  /\ IF mig.tx.kind = "clear"
     THEN /\ data' = WithContents(mig.tx.store, EmptyStore)
          /\ mig' = [mig EXCEPT !.tx.state = "done"]
     ELSE /\ ~DuplicateKey
          /\ LET s == mig.tx.store
                 item == Head(mig.tx.items)
             IN  data' = WithContents(s, [StoreContents(s) EXCEPT ![KeyOf(s, item)] = item])
          /\ mig' = [mig EXCEPT !.tx.items = Tail(@),
                                !.tx.addedCount = @ + 1,
                                !.tx.state = IF Tail(mig.tx.items) = << >> THEN "done" ELSE @]
  /\ UNCHANGED << db, isReady, initPromise, openReq, calls, persisted, dbStatus, txQueue,
                  upgrade >>

\* lines 607-613, 627 and 642: the error event of a request.  The handler of
\* importStore counts it; the event then reaches transaction.onerror, which
\* rejects with transaction.error (still null while the event is dispatched),
\* and, since no handler prevents the default, the engine aborts the
\* transaction.  importDatabase catches the rejection (lines 586-589).
importTx_request_onerror(e) ==
  /\ mig.pc \in {"clearStore", "importStore"}
  /\ Running(ImportTx)
  /\ mig.tx.state = "active"
  /\ mig.tx.kind = "import" => mig.tx.items # << >>
  /\ IF mig.tx.kind = "import" /\ DuplicateKey
     THEN e = DOMException("ConstraintError")
     ELSE e \in EngineErrors
  /\ mig' = [mig EXCEPT
       !.tx.state = "aborted",
       !.tx.skippedCount = IF mig.tx.kind = "import" /\ e.name = "ConstraintError"
                           THEN @ + 1 ELSE @,
       !.tx.errorCount = IF mig.tx.kind = "import" /\ e.name # "ConstraintError"
                         THEN @ + 1 ELSE @,
       !.pc = "rejected",
       !.error = ImportFailed(Undefined)]
  /\ data' = WithContents(mig.tx.store, mig.tx.before)
  /\ txQueue' = Tail(txQueue)
  /\ UNCHANGED << db, isReady, initPromise, openReq, calls, persisted, dbStatus, upgrade >>

\* lines 617-624 and 644: transaction.oncomplete resolves importStore with
\* its counters, or clearStore; importDatabase goes on with the next store.
importTx_oncomplete ==
  /\ mig.pc \in {"clearStore", "importStore"}
  /\ Running(ImportTx)
  /\ mig.tx.state = "done"
  /\ mig' = [mig EXCEPT
       !.tx.state = "complete",
       !.todo = Tail(@),
       !.pc = IF mig.tx.kind = "clear" THEN "clear" ELSE "import",
       !.results = IF mig.tx.kind = "clear" THEN @
                   ELSE Append(@, [store |-> mig.tx.store, total |-> mig.tx.total,
                                   added |-> mig.tx.addedCount,
                                   skipped |-> mig.tx.skippedCount,
                                   errors |-> mig.tx.errorCount])]
  /\ txQueue' = Tail(txQueue)
  /\ UNCHANGED << db, isReady, initPromise, openReq, calls, persisted, dbStatus, data,
                  upgrade >>

\* The commit of the activation's transaction fails: the engine rolls the
\* store back and fires abort only.  Neither importStore nor clearStore
\* registers an onabort handler, so the activation stays where it is.
importTx_onabort ==
  /\ mig.pc \in {"clearStore", "importStore"}
  /\ Running(ImportTx)
  /\ mig.tx.state = "done"
  /\ mig' = [mig EXCEPT !.tx.state = "aborted"]
  /\ data' = WithContents(mig.tx.store, mig.tx.before)
  /\ txQueue' = Tail(txQueue)
  /\ UNCHANGED << db, isReady, initPromise, openReq, calls, persisted, dbStatus, upgrade >>

(***************************************************************************)
(* SpecImport: one importDatabase call on a database at the current        *)
(* version that already holds usage metadata                               *)
(***************************************************************************)
\* A usage-metadata record written earlier by the application.
StoredUsage(f) ==
  UsageData(f, "permanent", [category |-> "emoji", tags |-> << >>, createdAt |-> "then",
                             fileName |-> "old"])

\* The target holds usage metadata and emojis under the keys of present.
InitImport ==
  /\ NewManager
  /\ persisted = CurrentDatabase
  /\ dbStatus = Undefined
  /\ \E present \in SUBSET Keys :
       data = [s \in DataStores |->
                 [k \in Keys |->
                    IF k \notin present THEN Undefined
                    ELSE IF s = "imageUsageMetadata" THEN StoredUsage(k)
                    ELSE IF s = "emojis" THEN SourceRecord(s, k)
                    ELSE Undefined]]

\* The steps of an importDatabase activation and the engine's events.
ImportSteps ==
  \/ importDatabase_resume
  \/ migrateFrom13To14_put
  \/ migrateFrom13To14_resume
  \/ migrateData_return
  \/ importDatabase_stores
  \/ clearStore
  \/ importStore
  \/ importTx_request_onsuccess
  \/ \E e \in EngineErrors \cup {DOMException("ConstraintError")} : importTx_request_onerror(e)
  \/ importTx_oncomplete
  \/ importTx_onabort
  \/ \E a \in OpenIds : onsuccess(a)
  \/ \E a \in OpenIds, e \in OpenErrors : onerror(a, e)
  \/ \E c \in CallIds : settle(c)
  \/ \E c \in CallIds : request_onsuccess(c)
  \/ \E c \in CallIds, e \in EngineErrors : request_onerror(c, e)
  \/ \E c \in CallIds : transaction_oncomplete(c)
  \/ \E c \in CallIds : transaction_onabort(c)

NextImport ==
  \/ \E importData \in Snapshots, options \in ImportOptions :
       mig.round = 0 /\ importDatabase(importData, options)
  \/ ImportSteps

SpecImport == InitImport /\ [][NextImport]_vars

(***************************************************************************)
(* SpecReimport: the same snapshot imported up to MaxImports times         *)
(***************************************************************************)
\* Exports of the current version, and older snapshots holding an emoji.
ReimportSnapshots ==
  ExportedSnapshots
    \cup {SnapshotOf(version - 1, c) : c \in {x \in SnapshotContents : x.emojis # Undefined}}

NextReimport ==
  \/ \E importData \in ReimportSnapshots, options \in ImportOptions :
       importDatabase(importData, options)
  \/ ImportSteps

SpecReimport == InitImport /\ [][NextReimport]_vars

\* C10: while importDatabase runs the data migration, nothing is written
\* through the live connection: no transaction is opened before migrateData
\* returns, and when it has returned every live store holds the records it
\* held when the import began.
C10_MigrationLeavesLiveStoreUntouched ==
  /\ mig.pc \in {"migrateFrom13To14", "setImageUsageMetadata"} =>
       \A c \in CallIds : calls[c].txOpens = 0
  /\ mig.pc = "stores" /\ mig.migrated => data = mig.liveBefore

\* The usage types the specification names.
UsageTypes == {"permanent", "temporary", "recent", "archive"}

\* C29: every record of imageUsageMetadata has a usageType among permanent,
\* temporary, recent and archive, and its key is its fileId, so that no two
\* records share a fileId.
C29_UsageTypeIsOneOfFour ==
  \A k \in Keys :
    data["imageUsageMetadata"][k] # Undefined =>
      /\ data["imageUsageMetadata"][k].fileId = k
      /\ data["imageUsageMetadata"][k].usageType \in UsageTypes

(***************************************************************************)
(* SpecSteps: the migration steps applied to snapshots, in any order       *)
(***************************************************************************)
\* The collections the steps add or remove.
CollectionKeys ==
  {"characterMemories", "globalMemory", "fileStorage", "fileReferences", "themeConfig",
   "bubbleDesignerStickers"}

\* Snapshots holding any of these collections, each with a record.  They
\* hold no emojis and no moments, so that migrateFrom13To14 finds nothing to
\* back-fill.
StepInputs ==
  {[k \in SnapshotKeys |->
      IF k = "_metadata" THEN [version |-> FirstBoundary]
      ELSE IF k \in present THEN Array(<< [id |-> 1] >>)
      ELSE Undefined] : present \in SUBSET CollectionKeys}

\* lines 786-837: migrateFrom13To14(data) reads data and assigns nothing to it.
migrateFrom13To14(d) == d

\* The step for the boundary k -> k + 1, as a change of the snapshot.
Step(k, d) == IF k = LastBoundary THEN migrateFrom13To14(d) ELSE SyncStep(k, d)

InitSteps ==
  /\ db = 0 /\ isReady = FALSE /\ initPromise = 0
  /\ openReq = [a \in OpenIds |-> NoRequest]
  /\ calls = [c \in CallIds |-> NoCall]
  /\ txQueue = << >>
  /\ upgrade = NoUpgrade
  /\ persisted = CurrentDatabase
  /\ dbStatus = Undefined
  /\ data = NoRecords
  /\ \E d \in StepInputs :
       mig = [NoMigration EXCEPT !.pc = "steps", !.importData = d, !.heap = << d >>,
                                 !.migratedData = 1]

\* One call of the step for boundary k on the snapshot object; before keeps
\* what the object held when the step was called.
applyStep(k) ==
  /\ mig.pc = "steps"
  /\ Len(mig.steps) < MaxStepRuns
  /\ k = LastBoundary => Backfill(mig.heap[1]) = << >>
  /\ mig' = [mig EXCEPT !.heap[1] = Step(k, @), !.steps = Append(@, k),
                        !.before = mig.heap[1]]
  /\ UNCHANGED << db, isReady, initPromise, openReq, calls, persisted, dbStatus, data,
                  txQueue, upgrade >>

NextSteps == \E k \in FirstBoundary..LastBoundary : applyStep(k)

SpecSteps == InitSteps /\ [][NextSteps]_vars

\* The last step applied and whether it was applied twice in a row.
LastStep == mig.steps[Len(mig.steps)]
AppliedTwice == Len(mig.steps) >= 2 /\ mig.steps[Len(mig.steps) - 1] = LastStep

\* C14 as stated: a step applied a second time leaves the snapshot as the
\* first application left it, and a step leaves every collection that was
\* present as it was.
C14_StepsIdempotentAndKeep ==
  mig.steps # << >> =>
    /\ AppliedTwice => mig.heap[1] = mig.before
    /\ \A c \in CollectionKeys : mig.before[c] # Undefined => mig.heap[1][c] = mig.before[c]

\* C14, amended: a step applied a second time leaves the snapshot as the
\* first application left it, and a step leaves every collection that was
\* present as it was, except that the step 11 -> 12 removes the
\* bubbleDesignerStickers collection.
C14_StepsIdempotentExceptRemoval ==
  mig.steps # << >> =>
    /\ AppliedTwice => mig.heap[1] = mig.before
    /\ \A c \in CollectionKeys :
         mig.before[c] # Undefined =>
           \/ mig.heap[1][c] = mig.before[c]
           \/ LastStep = 11 /\ c = RemovedStore /\ mig.heap[1][c] = Undefined

\* C14's case: the step 7 -> 8 has been applied twice to a snapshot that
\* held file references and no file storage.
C14_Witness ==
  /\ mig.steps = << 7, 7 >>
  /\ mig.importData.fileReferences # Undefined
  /\ mig.importData.fileStorage = Undefined
  /\ mig.heap[1].fileReferences = mig.importData.fileReferences
  /\ mig.heap[1].fileStorage = Array(<< >>)

\* The activation imported, with overwrite, the export of src into a target
\* that held no records, and has resolved.
ImportedExportOf(src) ==
  /\ mig.pc = "resolved"
  /\ mig.options.overwrite
  /\ mig.liveBefore = NoRecords
  /\ mig.importData = ExportData(CurrentDatabase, src, DefaultExportOptions)

\* C17: importing the export of a database with overwrite into an empty
\* target leaves, in every store other than apiSettings, exactly the records
\* the exported database held.
C17_ExportImportRoundTrip ==
  \A src \in Sources :
    ImportedExportOf(src) =>
      \A s \in DataStores \ {"apiSettings"} : data[s] = src[s]

C17_Witness ==
  \E src \in Sources :
    /\ ImportedExportOf(src)
    /\ \A k \in Keys : src["contacts"][k] # Undefined /\ data["contacts"][k] = src["contacts"][k]

\* importDatabase was called with validateVersion set and migration disabled
\* on a snapshot whose recorded version is not the current one.
VersionRefused ==
  /\ mig.round > 0
  /\ mig.options.validateVersion /\ ~mig.options.enableMigration
  /\ Truthy(mig.importData) /\ Truthy(mig.importData._metadata)
  /\ mig.importData._metadata.version # version

\* C19: such a call never resolves and never gets to the stores: it opens no
\* transaction, and once init() has opened the database it is rejected with
\* the version-mismatch error and the stores hold what they held, whether
\* overwrite is set or not.
C19_VersionMismatchRejects ==
  VersionRefused =>
    /\ mig.pc \in {"init", "rejected"}
    /\ mig.txOpens = 0
    /\ mig.heap # << >> =>
         /\ mig.pc = "rejected"
         /\ mig.error = ImportFailed(Error("version mismatch"))
         /\ data = mig.liveBefore

C19_Witness ==
  /\ VersionRefused
  /\ mig.options.overwrite
  /\ mig.importData._metadata.version > version
  /\ mig.pc = "rejected"
  /\ mig.error = ImportFailed(Error("version mismatch"))
  /\ \E s \in DataStores, k \in Keys : data[s][k] # Undefined

\* C20: every result importStore has resolved with has total equal to the
\* number of records the snapshot offers for the store and equal to
\* added + skipped + errors, and under overwrite its skipped is 0.
C20_ImportStoreCounts ==
  \A i \in DOMAIN mig.results :
    LET r == mig.results[i] IN
      /\ r.total = Len(MigratedSnapshot[r.store].array)
      /\ r.total = r.added + r.skipped + r.errors
      /\ mig.options.overwrite => r.skipped = 0

\* C20's case: under overwrite, importStore has resolved for a store that
\* held a record under the key of the record it was offered.
C20_Witness ==
  /\ mig.round > 0
  /\ mig.options.overwrite
  /\ \E i \in DOMAIN mig.results :
       LET r == mig.results[i] IN
         /\ r.total > 0
         /\ \E k \in Keys : /\ mig.liveBefore[r.store][k] # Undefined
                            /\ data[r.store][k] # Undefined

\* The records a store holds, and the records a snapshot offers for it.
StoredRecords(s) == {data[s][k] : k \in Keys} \ {Undefined}
OfferedRecords(s) ==
  {MigratedSnapshot[s].array[i] : i \in DOMAIN MigratedSnapshot[s].array}

\* Store s holds a record it did not hold when the import passed init().
WrittenSince(s) ==
  \E k \in Keys : data[s][k] # Undefined /\ data[s][k] # mig.liveBefore[s][k]

\* The clearing loop of the activation is over.
ClearingDone ==
  \/ mig.pc \in {"import", "importStore", "resolved"}
  \/ mig.pc = "rejected" /\ mig.tx # Undefined /\ mig.tx.kind = "import"

\* An overwrite import of a document that has passed init().
OverwriteImport ==
  /\ mig.round > 0
  /\ mig.heap # << >>
  /\ Truthy(mig.importData)
  /\ mig.options.overwrite

TargetStoresClearedBeforeWritten ==
  OverwriteImport =>
    /\ (\E s \in DataStores : MigratedSnapshot[s] # Undefined /\ WrittenSince(s))
         => ClearingDone
    /\ mig.pc = "resolved" =>
         \A s \in DataStores :
           MigratedSnapshot[s] # Undefined => StoredRecords(s) = OfferedRecords(s)

\* The activation is the second import, without overwrite, of a snapshot of
\* the current version; the first one resolved, and no request has failed for
\* a reason other than a key that is already present.
SecondImportSettled ==
  /\ mig.round = 2
  /\ ~MigrationRan
  /\ ~mig.options.overwrite
  /\ mig.prev.pc = "resolved"
  /\ mig.pc \in {"resolved", "rejected"}
  /\ mig.tx = Undefined \/ mig.tx.errorCount = 0

\* C18: the second import of the same snapshot with overwrite = false
\* completes, reports for every store skipped = total and added = 0, and
\* leaves the contents of the stores as they were.
C18_SecondImportSkipsAll ==
  SecondImportSettled =>
    /\ mig.pc = "resolved"
    /\ \A i \in DOMAIN mig.result.results :
         /\ mig.result.results[i].skipped = mig.result.results[i].total
         /\ mig.result.results[i].added = 0
    /\ data = mig.liveBefore

\* What the second import does: it leaves the stores as they were, and it
\* is rejected as soon as one record of the snapshot is already stored.
SecondImportRejectsOnDuplicate ==
  SecondImportSettled =>
    /\ data = mig.liveBefore
    /\ mig.pc = "rejected" <=>
         \E s \in DataStores :
           /\ MigratedSnapshot[s] # Undefined
           /\ MigratedSnapshot[s].array # << >>

(***************************************************************************)
(* SpecExport: saveConfig and exportDatabase                               *)
(***************************************************************************)
\* lines 479-482: the Error exportDatabase rethrows.
ExportFailed(e) == Error("export failed: " \o e.name)

\* lines 453-483: exportDatabase(options) is called.
exportDatabase(options) ==
  /\ mig.pc \in {"idle", "exported", "rejected"}
  /\ IF db = 0
     THEN /\ \E c \in CallIds :
               /\ NextCall(c)
               /\ EnterInit(c, NewCall("init"))
               /\ mig' = [NoMigration EXCEPT !.pc = "exportDatabase", !.call = c,
                                             !.options = options]
     ELSE /\ mig' = [NoMigration EXCEPT !.pc = "exported", !.options = options,
                                        !.result = ExportData(persisted, data, options)]
          /\ UNCHANGED << initPromise, openReq, calls, dbStatus >>
  /\ UNCHANGED << db, isReady, persisted, data, txQueue, upgrade >>

\* lines 454-456 and 479-482: exportDatabase resumes when init() has settled.
exportDatabase_resume ==
  /\ mig.pc = "exportDatabase"
  /\ Settled(mig.call)
  /\ mig' = IF calls[mig.call].pc = "rejected"
            THEN [mig EXCEPT !.pc = "rejected", !.error = ExportFailed(calls[mig.call].error)]
            ELSE [mig EXCEPT !.pc = "exported",
                             !.result = ExportData(persisted, data, mig.options)]
  /\ UNCHANGED << db, isReady, initPromise, openReq, calls, persisted, dbStatus, data,
                  txQueue, upgrade >>

\* apiConfigManager.js lines 160-226: saveConfig(config) puts the record into
\* apiSettings through window.db, which ensureDBReady has waited for.
saveConfig(config) ==
  /\ db # 0
  /\ data' = [data EXCEPT !["apiSettings"][config.id] = ConfigData(config)]
  /\ UNCHANGED << db, isReady, initPromise, openReq, calls, persisted, dbStatus, txQueue,
                  upgrade, mig >>

\* The settings store is empty or holds a record of the older format.
InitExport ==
  /\ NewManager
  /\ persisted = CurrentDatabase
  /\ dbStatus = Undefined
  /\ \E legacy \in SUBSET Keys :
       data = [NoRecords EXCEPT !["apiSettings"] =
                 [k \in Keys |-> IF k \in legacy THEN LegacySettings(k) ELSE Undefined]]

NextExport ==
  \/ \E options \in ExportOptions : exportDatabase(options)
  \/ exportDatabase_resume
  \/ \E k \in Keys : \E config \in ConfigsFor(k) : saveConfig(config)
  \/ \E a \in OpenIds : onsuccess(a)
  \/ \E a \in OpenIds, e \in OpenErrors : onerror(a, e)
  \/ \E c \in CallIds : settle(c)

SpecExport == InitExport /\ [][NextExport]_vars

\* A settings record holds a credential.
HoldsSecret(item) ==
  \/ \E f \in DOMAIN item \cap {"key", "apiKey", "password"} : item[f] = Secret
  \/ "apiKeys" \in DOMAIN item /\ \E i \in DOMAIN item.apiKeys.array :
                                     item.apiKeys.array[i].key = Secret

\* C16: whatever the writers have put into apiSettings and whatever options
\* are passed, no record of the apiSettings array that exportDatabase returns
\* holds a credential.
C16_ExportHasNoSecret ==
  mig.pc = "exported" /\ mig.result.apiSettings # Undefined =>
    \A i \in DOMAIN mig.result.apiSettings.array :
      ~HoldsSecret(mig.result.apiSettings.array[i])

\* What the export does remove: the apiKey and password of a record.
ExportDropsApiKeyAndPassword ==
  mig.pc = "exported" /\ mig.result.apiSettings # Undefined =>
    \A i \in DOMAIN mig.result.apiSettings.array :
      {"apiKey", "password"} \cap DOMAIN mig.result.apiSettings.array[i] = {}

(***************************************************************************)
(* Claims about the data migration (SpecImport)                            *)
(***************************************************************************)
\* C11: when migrateData runs on a snapshot of recorded version v < 14, the
\* steps it applies are boundaries between 4 and 13, in strictly increasing
\* order (so each at most once), none of them below v, and every boundary
\* from v on is among them.
C11_StepsInOrder ==
  MigrationRan =>
    LET v == mig.importData._metadata.version
        steps == mig.steps
    IN  /\ v < 14
        /\ \A i \in 1..Len(steps) : steps[i] \in 4..13 /\ steps[i] >= v
        /\ \A i, j \in 1..Len(steps) : i < j => steps[i] < steps[j]
        /\ \A k \in 4..13 : k >= v => \E i \in 1..Len(steps) : steps[i] = k

\* C11's case: a version-8 snapshot has been migrated by the steps 8 to 13.
C11_Witness ==
  /\ MigrationRan
  /\ mig.pc = "stores"
  /\ mig.importData._metadata.version = 8
  /\ mig.steps = << 8, 9, 10, 11, 12, 13 >>

\* C12: migrating a version-4 snapshot to version 14 yields a snapshot whose
\* _metadata records version 14 and originalVersion 4, and in which each of
\* characterMemories, fileStorage, fileReferences and themeConfig that the
\* input lacked is present as an empty array.
C12_Version4Migration ==
  MigrationRan /\ mig.importData._metadata.version = 4 =>
    /\ MigratedSnapshot._metadata.version = 14
    /\ MigratedSnapshot._metadata.originalVersion = 4
    /\ \A k \in {"characterMemories", "fileStorage", "fileReferences", "themeConfig"} :
         mig.importData[k] = Undefined => MigratedSnapshot[k] = Array(<< >>)

\* C12's case: a version-4 snapshot without the four collections has been
\* migrated and migrateData has returned.
C12_Witness ==
  /\ MigrationRan
  /\ mig.pc = "stores"
  /\ mig.importData._metadata.version = 4
  /\ \A k \in {"characterMemories", "fileStorage", "fileReferences", "themeConfig"} :
       mig.importData[k] = Undefined /\ MigratedSnapshot[k] = Array(<< >>)

\* C13: migrateData does not change its input: the object importDatabase
\* was given holds what it held at the call, throughout the import; the
\* snapshot migrateData returns is another object; and the result of
\* importDatabase reports migrated exactly when migrateData was called.
C13_InputNotMutated ==
  /\ mig.heap # << >> => mig.heap[1] = mig.importData
  /\ MigrationRan => mig.migratedData # 1
  /\ mig.pc = "resolved" => (mig.result.migrated <=> MigrationRan)

\* C13's case: an import that migrated its snapshot has resolved, and the
\* migrated snapshot differs from the input.
C13_Witness ==
  /\ mig.pc = "resolved"
  /\ MigrationRan
  /\ mig.result.migrated
  /\ MigratedSnapshot # mig.importData
  /\ mig.heap[1] = mig.importData

\* C15: a failure of a back-fill write of the step 13 -> 14 is caught: the
\* write's call rejects into the step's catch, so that the activation is
\* never left waiting on a failed write, and once the failure is caught
\* the snapshot has _metadata.version 14 and the import is not rejected
\* before it has reached the stores.
C15_BackfillFailureCaught ==
  /\ mig.pc = "setImageUsageMetadata" /\ EngineFailed(mig.call) =>
       calls[mig.call].pc = "rejected"
  /\ mig.caught =>
       /\ MigratedSnapshot._metadata.version = 14
       /\ mig.pc = "rejected" => mig.txOpens > 0

(***************************************************************************)
(* File storage: fileStorage, the handle cache, references and cleanup     *)
(***************************************************************************)
FileIds == 1..MaxFile
OpIds == 1..MaxOps

\* The manager once init() has been called on a database at the current
\* version and has resolved.
Opened ==
  /\ db = 1
  /\ isReady = TRUE
  /\ initPromise = 0
  /\ openReq = [a \in OpenIds |-> IF a = 1 THEN [NoRequest EXCEPT !.state = "success"]
                                  ELSE NoRequest]
  /\ calls = [c \in CallIds |->
                IF c = 1
                THEN [NoCall EXCEPT !.op = "init", !.pc = "resolved", !.path = "opened",
                                    !.attempt = 1, !.value = Conn(1),
                                    !.at = [db |-> 0, isReady |-> FALSE, initPromise |-> 0,
                                            resolved |-> {}, owners |-> {}, failed |-> {}]]
                ELSE NoCall]
  /\ persisted = CurrentDatabase
  /\ dbStatus = [version |-> version, isReady |-> TRUE]
  /\ txQueue = << >>
  /\ upgrade = NoUpgrade

\* Handles: what URL.createObjectURL returns for its n-th call, and the
\* empty string createFileURL returns at line 980.
ObjectURL(n) == [url |-> n]
EmptyHandle == [empty |-> TRUE]

\* The blob field of a fileStorage record: a Blob, nothing, or another
\* object, which has size and type or has not.  An object read from the
\* database carries no methods.
BlobKinds == {"Blob", "none", "sized", "other"}
FileRecord(id, kind) == [fileId |-> id, blob |-> kind]

\* lines 940-968: the checks createFileURL makes on fileRecord.blob before it
\* calls URL.createObjectURL; a blob that is no Blob passes only with size,
\* type and a stream or arrayBuffer method.
AnyBlob(blob) == TRUE
UsableBlob(blob) == blob = "Blob"

\* lines 1165-1173: the reference createFileReference builds.
AnyReferenceId(fileId, referenceType, referenceKey) ==
  referenceType \o "_" \o referenceKey \o "_" \o ToString(fileId)
ReferenceId(fileId, referenceType, referenceKey) == referenceType \o "_" \o referenceKey
Reference(fileId, referenceType, referenceKey) ==
  [referenceId |-> ReferenceId(fileId, referenceType, referenceKey), fileId |-> fileId,
   category |-> referenceType, referenceKey |-> referenceKey]

\* The reference types and keys callers pass; two of the pairs give one
\* referenceId.
ReferencePairs == {<< "emoji", "a" >>, << "emoji", "a_b" >>, << "emoji_a", "b" >>}
ReferenceIds ==
  {ReferenceId(0, pr[1], pr[2]) : pr \in ReferencePairs}
    \cup {AnyReferenceId(f, pr[1], pr[2]) : f \in FileIds, pr \in ReferencePairs}

\* The lists cleanupSelectedImages is given.
CleanupLists == {<< >>, << 1 >>, << 3, 1 >>, << 1, 2, 3 >>}

\* An activation of one of the file operations, with the transaction it
\* has open through _dbOperation: its store and request, whether the request
\* has run (began), the store's records before it ran, and operationResult.
\* read, failures, afterDelete, storedAtCall and the cache fields are
\* history.
NoOp ==
  [op |-> "none", pc |-> "idle", fileId |-> 0, list |-> << >>, todo |-> << >>,
   step |-> "", store |-> "", request |-> "", key |-> 0, val |-> Undefined,
   tx |-> "none", began |-> FALSE, before |-> Undefined, after |-> Undefined,
   count |-> 0, operationResult |-> Undefined,
   deletedCount |-> 0, errors |-> << >>, value |-> Undefined, error |-> NoError,
   read |-> Undefined, failures |-> 0, afterDelete |-> FALSE, storedAtCall |-> {},
   cacheBefore |-> Undefined, cacheAfter |-> Undefined]

\* The file manager: urlCache (line 31), the handles created so far with the
\* file each was created for and whether it has been revoked, and the
\* activations.  deleted, revoked and latest are history.
NoFiles ==
  [urlCache |-> [f \in FileIds |-> Undefined],
   handles |-> << >>,
   ops |-> [o \in OpIds |-> NoOp],
   deleted |-> {}, revoked |-> {},
   latest |-> [pr \in ReferencePairs |-> 0]]

\* The next activation.
NextOp(o) ==
  /\ mig.ops[o].op = "none"
  /\ \A q \in OpIds : q < o => mig.ops[q].op # "none"

\* lines 360-363: the activation creates its next transaction, with one
\* request, on the open database.
WithTx(rec, store, request, key, val) ==
  [rec EXCEPT !.pc = "tx", !.store = store, !.request = request, !.key = key,
              !.val = val, !.tx = "active", !.began = FALSE, !.count = 0,
              !.operationResult = Undefined]

\* lines 987-993: revokeFileURL(fileId) on the file manager m.
KeepFileURL(m, fileId) == m
RevokeFileURL(m, fileId) ==
  IF m.urlCache[fileId] = Undefined THEN m
  ELSE [m EXCEPT !.urlCache[fileId] = Undefined,
                 !.handles = [i \in DOMAIN m.handles |->
                                IF ObjectURL(i) = m.urlCache[fileId]
                                THEN [m.handles[i] EXCEPT !.revoked = TRUE]
                                ELSE m.handles[i]],
                 !.revoked = @ \cup {fileId}]

\* lines 922-928: what getFile settles with when its get has settled.
GetFileOutcome(ok, value) ==
  IF ~ok THEN [ok |-> FALSE, value |-> value]
  ELSE IF value = Undefined THEN [ok |-> FALSE, value |-> Error("file not found")]
  ELSE [ok |-> TRUE, value |-> value]

\* lines 939-982: createFileURL after `await this.getFile(fileId)`.
CreateFileURLAfterGet(m, o, ok, value) ==
  LET out == GetFileOutcome(ok, value)
      rec == [m.ops[o] EXCEPT !.pc = "resolved", !.read = IF ok THEN value ELSE Undefined,
                              !.cacheBefore = m.urlCache]
      id == rec.fileId
      url == ObjectURL(Len(m.handles) + 1)
  IN
  IF out.ok /\ out.value.blob # "none" /\ UsableBlob(out.value.blob)
  THEN [m EXCEPT !.handles = Append(@, [file |-> id, revoked |-> FALSE]),
                 !.urlCache[id] = url,
                 !.ops[o] = [rec EXCEPT !.value = url,
                                        !.cacheAfter = [m.urlCache EXCEPT ![id] = url]]]
  ELSE [m EXCEPT !.ops[o] = [rec EXCEPT !.value = EmptyHandle, !.cacheAfter = m.urlCache]]

\* A deletion that empties the whole cache.
DropEveryFileURL(m, fileId) ==
  [m EXCEPT !.urlCache = [f \in FileIds |-> Undefined], !.deleted = @ \cup {fileId}]

\* lines 1155-1159: deleteFile after `await this.delete(...)` has resolved.
DeleteFileAfterDelete(m, fileId) ==
  [RevokeFileURL(m, fileId) EXCEPT !.deleted = @ \cup {fileId}]

\* lines 1060-1081: cleanupSelectedImages goes on to the next id of the
\* list, or returns.
NextFileId(m, o) ==
  LET rec == m.ops[o]
      todo == Tail(rec.todo)
  IN
  IF todo = << >>
  THEN [m EXCEPT !.ops[o] =
          [rec EXCEPT !.pc = "resolved", !.todo = todo,
                      !.value = [deletedCount |-> rec.deletedCount,
                                 totalRequested |-> Len(rec.list),
                                 errors |-> rec.errors]]]
  ELSE [m EXCEPT !.ops[o] =
          WithTx([rec EXCEPT !.todo = todo, !.step = "deleteFile"],
                 "fileStorage", "delete", Head(todo), Undefined)]

\* lines 1060-1075: one pass of the loop of cleanupSelectedImages, resumed
\* when the call it awaits has settled.
CleanupAfter(m, o, ok, value) ==
  LET rec == m.ops[o]
      fileId == Head(rec.todo)
  IN
  IF ~ok
  THEN NextFileId([m EXCEPT !.ops[o].errors =
                      Append(@, [fileId |-> fileId, error |-> value.name])], o)
  ELSE CASE rec.step = "deleteFile" ->
              [DeleteFileAfterDelete(m, fileId) EXCEPT !.ops[o] =
                 WithTx([rec EXCEPT !.step = "delete"],
                        "imageUsageMetadata", "delete", fileId, Undefined)]
         [] rec.step = "delete" ->
              [m EXCEPT !.ops[o] =
                 WithTx([rec EXCEPT !.step = "cleanupFileReferences"],
                        "fileReferences", "cursor", fileId, Undefined)]
         [] OTHER ->
              NextFileId([m EXCEPT !.ops[o].deletedCount = @ + 1], o)

\* The activation o is resumed, in the microtasks of the event that settled
\* the call it awaited, with the call's outcome; d holds the records after
\* the event.
Resume(m, d, o, ok, value) ==
  LET rec == m.ops[o] IN
  CASE rec.op = "getFile" ->
         LET out == GetFileOutcome(ok, value) IN
         [m EXCEPT !.ops[o] =
            IF out.ok THEN [rec EXCEPT !.pc = "resolved", !.value = out.value]
            ELSE [rec EXCEPT !.pc = "rejected", !.error = out.value]]
    [] rec.op = "createFileURL" -> CreateFileURLAfterGet(m, o, ok, value)
    [] rec.op = "deleteFile" ->
         IF ok THEN [DeleteFileAfterDelete(m, rec.fileId) EXCEPT !.ops[o].pc = "resolved"]
         ELSE [m EXCEPT !.ops[o] = [rec EXCEPT !.pc = "rejected", !.error = value]]
    [] rec.op = "cleanupSelectedImages" -> CleanupAfter(m, o, ok, value)
    [] OTHER ->
         IF ok THEN [m EXCEPT !.ops[o] = [rec EXCEPT !.pc = "resolved", !.value = value,
                                                     !.after = d[rec.store]]]
         ELSE [m EXCEPT !.ops[o] = [rec EXCEPT !.pc = "rejected", !.error = value]]

\* The transactions left once the one at the head has finished: the
\* activation may have created its next one.
QueueAfter(m, o) ==
  IF m.ops[o].tx = "active" THEN Append(Tail(txQueue), o) ELSE Tail(txQueue)

\* A cursor over every reference of the store.
EveryReference(fileId) ==
  {r \in DOMAIN data["fileReferences"] : data["fileReferences"][r] # Undefined}

\* lines 1092-1093: the references the cursor of cleanupFileReferences, opened
\* on the fileId index with the key fileId, has yet to visit.
Matching(fileId) ==
  {r \in DOMAIN data["fileReferences"] :
     /\ data["fileReferences"][r] # Undefined
     /\ data["fileReferences"][r].fileId = fileId}

\* The success event of the request of activation o: a get settles the
\* call (line 388); a put or a delete is recorded (lines 377-379); the
\* cursor of lines 1095-1106 deletes the reference it is on and continues,
\* or resolves with the count.
file_request_onsuccess(o) ==
  /\ Running(o)
  /\ mig.ops[o].tx = "active"
  /\ LET rec == [mig.ops[o] EXCEPT
                   !.began = TRUE,
                   !.before = IF mig.ops[o].began THEN @ ELSE data[mig.ops[o].store]]
     IN
     CASE rec.request = "get" ->
            /\ mig' = Resume([mig EXCEPT !.ops[o] = [rec EXCEPT !.tx = "complete"]],
                             data, o, TRUE, data[rec.store][rec.key])
            /\ txQueue' = QueueAfter(mig', o)
            /\ UNCHANGED data
       [] rec.request = "put" ->
            /\ data' = [data EXCEPT ![rec.store][KeyOf(rec.store, rec.val)] = rec.val]
            /\ mig' = [mig EXCEPT !.ops[o] = [rec EXCEPT !.tx = "done",
                                                         !.operationResult = rec.val]]
            /\ UNCHANGED txQueue
       [] rec.request = "delete" ->
            /\ data' = [data EXCEPT ![rec.store][rec.key] = Undefined]
            /\ mig' = [mig EXCEPT !.ops[o] = [rec EXCEPT !.tx = "done"]]
            /\ UNCHANGED txQueue
       [] OTHER ->
            /\ IF Matching(rec.key) = {}
               THEN /\ mig' = [mig EXCEPT !.ops[o] =
                                 [rec EXCEPT !.tx = "done",
                                             !.operationResult = Number(rec.count)]]
                    /\ UNCHANGED data
               ELSE \E r \in Matching(rec.key) :
                      /\ data' = [data EXCEPT !["fileReferences"][r] = Undefined]
                      /\ mig' = [mig EXCEPT !.ops[o] = [rec EXCEPT !.count = @ + 1]]
            /\ UNCHANGED txQueue
  /\ UNCHANGED << db, isReady, initPromise, openReq, calls, persisted, dbStatus, upgrade >>

\* The error event of the request of activation o (lines 365-368, 389 and
\* 1108-1111): the call rejects with the request's error and the engine
\* aborts the transaction.
file_request_onerror(o, e) ==
  /\ Running(o)
  /\ mig.ops[o].tx = "active"
  /\ LET rec == mig.ops[o]
         d == IF rec.began THEN [data EXCEPT ![rec.store] = rec.before] ELSE data
     IN
     /\ data' = d
     /\ mig' = Resume([mig EXCEPT !.ops[o] = [rec EXCEPT !.tx = "aborted",
                                                         !.failures = @ + 1]],
                      d, o, FALSE, e)
     /\ txQueue' = QueueAfter(mig', o)
  /\ UNCHANGED << db, isReady, initPromise, openReq, calls, persisted, dbStatus, upgrade >>

\* lines 381-383: transaction.oncomplete of a readwrite transaction resolves
\* the call with operationResult.
file_transaction_oncomplete(o) ==
  /\ Running(o)
  /\ mig.ops[o].tx = "done"
  /\ mig' = Resume([mig EXCEPT !.ops[o].tx = "complete"], data, o, TRUE,
                   mig.ops[o].operationResult)
  /\ txQueue' = QueueAfter(mig', o)
  /\ UNCHANGED << db, isReady, initPromise, openReq, calls, persisted, dbStatus, data,
                  upgrade >>

\* The commit fails: the engine rolls the store back and fires abort only,
\* which _dbOperation does not listen to; the activation stays where it is.
file_transaction_onabort(o) ==
  /\ Running(o)
  /\ mig.ops[o].tx = "done"
  /\ data' = [data EXCEPT ![mig.ops[o].store] = mig.ops[o].before]
  /\ mig' = [mig EXCEPT !.ops[o].tx = "aborted", !.ops[o].failures = @ + 1]
  /\ txQueue' = Tail(txQueue)
  /\ UNCHANGED << db, isReady, initPromise, openReq, calls, persisted, dbStatus, upgrade >>

\* The file ids under which fileStorage holds a record.
Stored == {f \in FileIds : data["fileStorage"][f] # Undefined}

\* An activation begins: it is given the next number and the history fields.
Begin(o, op, fileId) ==
  [NoOp EXCEPT !.op = op, !.fileId = fileId, !.afterDelete = fileId \in mig.deleted,
               !.storedAtCall = Stored]

FileFrame == UNCHANGED << db, isReady, initPromise, openReq, calls, persisted, dbStatus,
                          data, upgrade >>

\* lines 922-923: getFile(fileId) is called.
getFile(o, fileId) ==
  /\ NextOp(o)
  /\ mig' = [mig EXCEPT !.ops[o] =
               WithTx(Begin(o, "getFile", fileId), "fileStorage", "get", fileId, Undefined)]
  /\ txQueue' = Append(txQueue, o)
  /\ FileFrame

\* lines 933-939: createFileURL(fileId) is called; a cached handle is
\* returned at once.
createFileURL(o, fileId) ==
  /\ NextOp(o)
  /\ IF mig.urlCache[fileId] # Undefined
     THEN /\ mig' = [mig EXCEPT !.ops[o] =
                       [Begin(o, "createFileURL", fileId) EXCEPT
                          !.pc = "resolved", !.value = mig.urlCache[fileId],
                          !.cacheBefore = mig.urlCache, !.cacheAfter = mig.urlCache]]
          /\ UNCHANGED txQueue
     ELSE /\ mig' = [mig EXCEPT !.ops[o] =
                       WithTx(Begin(o, "createFileURL", fileId),
                              "fileStorage", "get", fileId, Undefined)]
          /\ txQueue' = Append(txQueue, o)
  /\ FileFrame

\* lines 987-993: revokeFileURL(fileId) is called on a cached handle.
revokeFileURL(fileId) ==
  /\ mig.urlCache[fileId] # Undefined
  /\ mig' = RevokeFileURL(mig, fileId)
  /\ UNCHANGED txQueue
  /\ FileFrame

\* lines 1155-1156: deleteFile(fileId) is called.
deleteFile(o, fileId) ==
  /\ NextOp(o)
  /\ mig' = [mig EXCEPT !.ops[o] =
               WithTx(Begin(o, "deleteFile", fileId), "fileStorage", "delete", fileId,
                      Undefined)]
  /\ txQueue' = Append(txQueue, o)
  /\ FileFrame

\* lines 1051-1063: cleanupSelectedImages(fileIds) is called.
cleanupSelectedImages(o, fileIds) ==
  /\ NextOp(o)
  /\ IF fileIds = << >>
     THEN /\ mig' = [mig EXCEPT !.ops[o] =
                       [Begin(o, "cleanupSelectedImages", 0) EXCEPT
                          !.pc = "resolved",
                          !.value = [deletedCount |-> 0, errors |-> << >>]]]
          /\ UNCHANGED txQueue
     ELSE /\ mig' = [mig EXCEPT !.ops[o] =
                       WithTx([Begin(o, "cleanupSelectedImages", 0) EXCEPT
                                 !.list = fileIds, !.todo = fileIds, !.step = "deleteFile"],
                              "fileStorage", "delete", Head(fileIds), Undefined)]
          /\ txQueue' = Append(txQueue, o)
  /\ FileFrame

\* lines 1088-1093: cleanupFileReferences(fileId) is called.
cleanupFileReferences(o, fileId) ==
  /\ NextOp(o)
  /\ mig' = [mig EXCEPT !.ops[o] =
               WithTx(Begin(o, "cleanupFileReferences", fileId),
                      "fileReferences", "cursor", fileId, Undefined)]
  /\ txQueue' = Append(txQueue, o)
  /\ FileFrame

\* lines 1164-1175: createFileReference(fileId, referenceType, referenceKey)
\* is called.
createFileReference(o, fileId, referenceType, referenceKey) ==
  /\ NextOp(o)
  /\ mig' = [mig EXCEPT
       !.ops[o] = WithTx([Begin(o, "createFileReference", fileId) EXCEPT
                            !.list = << referenceType, referenceKey >>],
                         "fileReferences", "put", 0,
                         Reference(fileId, referenceType, referenceKey)),
       !.latest[<< referenceType, referenceKey >>] = o]
  /\ txQueue' = Append(txQueue, o)
  /\ FileFrame

\* The error a request of a file operation can fail with.
FileErrors == {DOMException("UnknownError")}

\* The events of the transactions of the file operations.
FileEvents ==
  \/ \E o \in OpIds : file_request_onsuccess(o)
  \/ \E o \in OpIds, e \in FileErrors : file_request_onerror(o, e)
  \/ \E o \in OpIds : file_transaction_oncomplete(o)
  \/ \E o \in OpIds : file_transaction_onabort(o)

\* The records of an opened database.  The last file id was never stored,
\* file 2 is stored with a Blob, and the stored files have usage metadata.
FilesWith(first) ==
  [f \in FileIds |-> IF f = 1 THEN first
                     ELSE IF f = 2 THEN FileRecord(2, "Blob") ELSE Undefined]
UsageOf(files) ==
  [f \in FileIds |-> IF files[f] = Undefined THEN Undefined ELSE StoredUsage(f)]
NoReferences == [r \in ReferenceIds |-> Undefined]

(***************************************************************************)
(* SpecFileURL: getFile, createFileURL, revokeFileURL and deleteFile        *)
(***************************************************************************)
\* File 1 is stored with any blob field or not at all; the cache is empty or
\* holds the handle an earlier createFileURL(2) has created.
InitFileURL ==
  /\ Opened
  /\ \E first \in {Undefined} \cup {FileRecord(1, kind) : kind \in BlobKinds} :
       data = [fileStorage |-> FilesWith(first),
               imageUsageMetadata |-> UsageOf(FilesWith(first)),
               fileReferences |-> NoReferences]
  /\ \/ mig = NoFiles
     \/ mig = [NoFiles EXCEPT !.urlCache[2] = ObjectURL(1),
                              !.handles = << [file |-> 2, revoked |-> FALSE] >>]

NextFileURL ==
  \/ \E o \in OpIds, f \in FileIds : getFile(o, f)
  \/ \E o \in OpIds, f \in FileIds : createFileURL(o, f)
  \/ \E f \in FileIds : revokeFileURL(f)
  \/ \E o \in OpIds, f \in FileIds : deleteFile(o, f)
  \/ FileEvents

SpecFileURL == InitFileURL /\ [][NextFileURL]_vars

(***************************************************************************)
(* SpecCleanup: cleanupSelectedImages, cleanupFileReferences and           *)
(* createFileReference                                                     *)
(***************************************************************************)
\* File 1 is stored or not, and there are no references or two references
\* to file 1.
InitCleanup ==
  /\ Opened
  /\ mig = NoFiles
  /\ \E first \in {Undefined, FileRecord(1, "Blob")},
        references \in {NoReferences,
                        [r \in ReferenceIds |->
                           IF r = ReferenceId(1, "emoji", "a")
                           THEN Reference(1, "emoji", "a")
                           ELSE IF r = ReferenceId(1, "emoji", "a_b")
                           THEN Reference(1, "emoji", "a_b")
                           ELSE Undefined]} :
       data = [fileStorage |-> FilesWith(first),
               imageUsageMetadata |-> UsageOf(FilesWith(first)),
               fileReferences |-> references]

NextCleanup ==
  \/ \E o \in OpIds, fileIds \in CleanupLists : cleanupSelectedImages(o, fileIds)
  \/ \E o \in OpIds, f \in FileIds : cleanupFileReferences(o, f)
  \/ \E o \in OpIds, f \in FileIds, pr \in ReferencePairs :
       createFileReference(o, f, pr[1], pr[2])
  \/ FileEvents

SpecCleanup == InitCleanup /\ [][NextCleanup]_vars

(***************************************************************************)
(* Claims about file storage (SpecFileURL, SpecCleanup)                    *)
(***************************************************************************)
\* C22: a getFile(id) called after a deleteFile(id) has resolved never
\* resolves, and rejects with the not-found error unless its request itself
\* failed; a createFileURL(id) called after it resolves with the empty
\* handle, whether or not a handle for id was cached before the deletion.
C22_DeletedFileIsGone ==
  \A o \in OpIds :
    mig.ops[o].afterDelete =>
      /\ mig.ops[o].op = "getFile" =>
           /\ mig.ops[o].pc # "resolved"
           /\ mig.ops[o].pc = "rejected" /\ mig.ops[o].failures = 0 =>
                mig.ops[o].error = Error("file not found")
      /\ mig.ops[o].op = "createFileURL" /\ mig.ops[o].pc # "tx" =>
           /\ mig.ops[o].pc = "resolved"
           /\ mig.ops[o].value = EmptyHandle

\* C22's case: a handle for the file was cached, deleteFile has resolved, and
\* a createFileURL called afterwards has returned the empty handle.
C22_Witness ==
  \E o \in OpIds :
    /\ mig.ops[o].op = "createFileURL"
    /\ mig.ops[o].afterDelete
    /\ mig.ops[o].pc = "resolved"
    /\ mig.ops[o].value = EmptyHandle
    /\ \E i \in DOMAIN mig.handles :
         mig.handles[i].file = mig.ops[o].fileId /\ mig.handles[i].revoked

\* The handles created so far for file f.
HandlesOf(f) == {i \in DOMAIN mig.handles : mig.handles[i].file = f}

\* C23: as long as no handle of a file has been revoked, at most one handle
\* has been created for it, every createFileURL call on it that returned a
\* handle returned that one, and the handle is in the cache.
C23_OneHandlePerFile ==
  \A f \in FileIds :
    f \notin mig.revoked =>
      /\ Cardinality(HandlesOf(f)) <= 1
      /\ \A o \in OpIds :
           /\ mig.ops[o].op = "createFileURL" /\ mig.ops[o].fileId = f
           /\ mig.ops[o].pc = "resolved" /\ mig.ops[o].value # EmptyHandle
           => mig.ops[o].value = mig.urlCache[f]
      /\ \A i \in HandlesOf(f) : mig.urlCache[f] = ObjectURL(i)

\* What the cache does ensure: a createFileURL call made when a handle is
\* cached returns it and creates none.
CachedHandleIsReused ==
  \A o \in OpIds :
    /\ mig.ops[o].op = "createFileURL"
    /\ mig.ops[o].pc = "resolved"
    /\ mig.ops[o].cacheBefore[mig.ops[o].fileId] # Undefined
    /\ mig.ops[o].tx = "none"
    => /\ mig.ops[o].value = mig.ops[o].cacheBefore[mig.ops[o].fileId]
       /\ mig.ops[o].cacheAfter = mig.ops[o].cacheBefore

\* The get of activation o found no record, or a record whose blob is
\* missing or is no Blob.
NothingToShow(o) ==
  IF mig.ops[o].read = Undefined THEN TRUE ELSE mig.ops[o].read.blob # "Blob"

\* C24: createFileURL never rejects, and a call whose get failed, found no
\* record, or found a record without a usable blob resolves with the empty
\* handle and leaves the cache as it was.
C24_CreateFileURLNeverRejects ==
  \A o \in OpIds :
    mig.ops[o].op = "createFileURL" =>
      /\ mig.ops[o].pc # "rejected"
      /\ mig.ops[o].pc = "resolved" /\ mig.ops[o].tx # "none" /\ NothingToShow(o) =>
           /\ mig.ops[o].value = EmptyHandle
           /\ mig.ops[o].cacheAfter = mig.ops[o].cacheBefore

\* C24's case: the record read has a blob that is no Blob.
C24_Witness ==
  \E o \in OpIds :
    /\ mig.ops[o].op = "createFileURL"
    /\ mig.ops[o].pc = "resolved"
    /\ mig.ops[o].read # Undefined
    /\ mig.ops[o].read.blob = "sized"
    /\ mig.ops[o].value = EmptyHandle

\* C25: a step of a deleteFile(id) activation leaves every file reference,
\* every usage-metadata record, every blob record other than id's and every
\* cached handle other than id's as it was.
C25_DeleteFileFrame ==
  [][\A o \in OpIds :
       mig'.ops[o].op = "deleteFile" /\ mig'.ops[o] # mig.ops[o] =>
         /\ data'["fileReferences"] = data["fileReferences"]
         /\ data'["imageUsageMetadata"] = data["imageUsageMetadata"]
         /\ \A f \in FileIds \ {mig'.ops[o].fileId} :
              /\ data'["fileStorage"][f] = data["fileStorage"][f]
              /\ mig'.urlCache[f] = mig.urlCache[f]]_vars

\* C25's case: deleteFile has removed a stored file and revoked its cached
\* handle, while its usage metadata and the other file are still there.
C25_Witness ==
  \E o \in OpIds :
    /\ mig.ops[o].op = "deleteFile"
    /\ mig.ops[o].pc = "resolved"
    /\ data["fileStorage"][mig.ops[o].fileId] = Undefined
    /\ data["imageUsageMetadata"][mig.ops[o].fileId] # Undefined
    /\ \E i \in DOMAIN mig.handles :
         mig.handles[i].file = mig.ops[o].fileId /\ mig.handles[i].revoked
    /\ \E f \in FileIds \ {mig.ops[o].fileId} : data["fileStorage"][f] # Undefined

\* A cleanupSelectedImages([1, 2, 3]) call that was made when files 1 and 2
\* were stored and file 3 was not, none of whose requests has failed, has
\* resolved.
CleanedTwoAndMissing(o) ==
  /\ mig.ops[o].op = "cleanupSelectedImages"
  /\ mig.ops[o].list = << 1, 2, 3 >>
  /\ mig.ops[o].storedAtCall = {1, 2}
  /\ mig.ops[o].failures = 0
  /\ mig.ops[o].pc = "resolved"

\* C26: such a call returns deletedCount = 2, totalRequested = 3 and one
\* entry in errors, the one for file 3.
C26_MissingFileIsAnError ==
  \A o \in OpIds :
    CleanedTwoAndMissing(o) =>
      /\ mig.ops[o].value.deletedCount = 2
      /\ mig.ops[o].value.totalRequested = 3
      /\ Len(mig.ops[o].value.errors) = 1
      /\ mig.ops[o].value.errors[1].fileId = 3

\* What such a call returns: the delete of an absent key succeeds, so the
\* three ids are counted and errors is empty.
MissingFileIsCounted ==
  \A o \in OpIds :
    CleanedTwoAndMissing(o) =>
      /\ mig.ops[o].value.deletedCount = 3
      /\ mig.ops[o].value.totalRequested = 3
      /\ mig.ops[o].value.errors = << >>

\* C27: cleanupSelectedImages never rejects, visits the ids of its list in
\* order, and resolves with deletedCount + number of errors = totalRequested
\* = length of the list.
C27_CleanupCountsAddUp ==
  \A o \in OpIds :
    mig.ops[o].op = "cleanupSelectedImages" =>
      /\ mig.ops[o].pc # "rejected"
      /\ \E n \in 0..Len(mig.ops[o].list) :
           mig.ops[o].todo = SubSeq(mig.ops[o].list, n + 1, Len(mig.ops[o].list))
      /\ mig.ops[o].pc = "resolved" =>
           /\ "totalRequested" \in DOMAIN mig.ops[o].value
           /\ mig.ops[o].value.totalRequested = Len(mig.ops[o].list)
           /\ mig.ops[o].value.deletedCount + Len(mig.ops[o].value.errors)
                = mig.ops[o].value.totalRequested

\* What holds for every list that is not empty.
CleanupCountsAddUpForIds ==
  \A o \in OpIds :
    mig.ops[o].op = "cleanupSelectedImages" /\ mig.ops[o].list # << >> =>
      /\ mig.ops[o].pc # "rejected"
      /\ \E n \in 0..Len(mig.ops[o].list) :
           mig.ops[o].todo = SubSeq(mig.ops[o].list, n + 1, Len(mig.ops[o].list))
      /\ mig.ops[o].pc = "resolved" =>
           /\ mig.ops[o].todo = << >>
           /\ mig.ops[o].value.totalRequested = Len(mig.ops[o].list)
           /\ mig.ops[o].value.deletedCount + Len(mig.ops[o].value.errors)
                = mig.ops[o].value.totalRequested

\* The references to file f among the records refs.
ReferencesTo(refs, f) ==
  {r \in DOMAIN refs : IF refs[r] = Undefined THEN FALSE ELSE refs[r].fileId = f}

\* C28: when cleanupFileReferences(fileId) has resolved, its transaction has
\* committed, the store held at that moment no reference to fileId and every
\* other reference as it was when the cursor was opened, and the call's
\* value is the number of references the cursor visited.
C28_CleanupDrainsInOneTransaction ==
  \A o \in OpIds :
    mig.ops[o].op = "cleanupFileReferences" /\ mig.ops[o].pc = "resolved" =>
      /\ mig.ops[o].tx = "complete"
      /\ ReferencesTo(mig.ops[o].after, mig.ops[o].fileId) = {}
      /\ \A r \in ReferenceIds \ ReferencesTo(mig.ops[o].before, mig.ops[o].fileId) :
           mig.ops[o].after[r] = mig.ops[o].before[r]
      /\ mig.ops[o].value
           = Number(Cardinality(ReferencesTo(mig.ops[o].before, mig.ops[o].fileId)))

\* C28's case: the cursor has visited the references to its file and another
\* file's reference is still stored.
C28_Witness ==
  \E o \in OpIds :
    /\ mig.ops[o].op = "cleanupFileReferences"
    /\ mig.ops[o].pc = "resolved"
    /\ ReferencesTo(mig.ops[o].before, mig.ops[o].fileId) # {}
    /\ \E r \in ReferenceIds : mig.ops[o].after[r] # Undefined

\* The key the specification gives the reference of a pair.
PairKey(pr) == pr[1] \o "_" \o pr[2]

\* C30: every stored reference is stored under the key made of its category
\* and its referenceKey, so that the store holds at most one reference per
\* pair; a createFileReference call that has resolved left, under that key,
\* the reference to its fileId; and when the latest call for a pair has
\* resolved, the reference the store holds for the pair points at that
\* call's fileId.
C30_CreateFileReferenceIsUpsert ==
  /\ \A k \in DOMAIN data["fileReferences"] :
       data["fileReferences"][k] # Undefined =>
         /\ data["fileReferences"][k].referenceId = k
         /\ k = PairKey(<< data["fileReferences"][k].category,
                           data["fileReferences"][k].referenceKey >>)
  /\ \A o \in OpIds :
       mig.ops[o].op = "createFileReference" /\ mig.ops[o].pc = "resolved" =>
         /\ PairKey(mig.ops[o].list) \in DOMAIN mig.ops[o].after
         /\ mig.ops[o].after[PairKey(mig.ops[o].list)]
              = [referenceId |-> PairKey(mig.ops[o].list), fileId |-> mig.ops[o].fileId,
                 category |-> mig.ops[o].list[1], referenceKey |-> mig.ops[o].list[2]]
  /\ \A pr \in ReferencePairs :
       mig.latest[pr] # 0 =>
         (mig.ops[mig.latest[pr]].pc = "resolved" =>
            \A k \in DOMAIN data["fileReferences"] :
              LET r == data["fileReferences"][k] IN
              r # Undefined =>
                (r.category = pr[1] /\ r.referenceKey = pr[2] =>
                   r.fileId = mig.ops[mig.latest[pr]].fileId))

\* C30's case: a call has replaced the reference of its pair, which pointed
\* at another file, and a second reference points at the call's file.
C30_Witness ==
  \E o \in OpIds :
    /\ mig.ops[o].op = "createFileReference"
    /\ mig.ops[o].pc = "resolved"
    /\ mig.ops[o].before[PairKey(mig.ops[o].list)] # Undefined
    /\ mig.ops[o].before[PairKey(mig.ops[o].list)].fileId # mig.ops[o].fileId
    /\ \E k \in DOMAIN mig.ops[o].after :
         /\ k # PairKey(mig.ops[o].list)
         /\ mig.ops[o].after[k] # Undefined
         /\ mig.ops[o].after[k].fileId = mig.ops[o].fileId

(***************************************************************************)
(* Further claims about the connection lifecycle (Spec)                    *)
(***************************************************************************)
\* The init() calls that have been made and have not settled.
Outstanding == {c \in CallIds : Issued(c) /\ ~Settled(c)}

\* C34: isReady implies that db is set; initPromise is set only while the
\* call that started the attempt it names has not settled; and once no
\* init() call is outstanding, initPromise is null.
C34_ReadyImpliesConnection ==
  /\ isReady => db # 0
  /\ initPromise # 0 =>
       \E c \in Outstanding : calls[c].pc = "owner" /\ calls[c].attempt = initPromise
  /\ Outstanding = {} => initPromise = 0

\* C34's case: an attempt has failed, a later one has succeeded, and every
\* call has settled.
C34_Witness ==
  /\ Outstanding = {}
  /\ \E c \in CallIds : calls[c].pc = "rejected"
  /\ \E c \in CallIds : calls[c].pc = "resolved" /\ calls[c].path = "opened"
  /\ isReady
  /\ initPromise = 0

(***************************************************************************)
(* SpecOpen: the connection lifecycle when another context holds the       *)
(* database open at an earlier version                                     *)
(***************************************************************************)
\* lines 114-143: the engine fires `blocked` at the open request, because a
\* connection of another context stays open at the earlier version.
\* _performInit sets no onblocked handler, so nothing of the manager changes:
\* the request waits.
onblocked(a) ==
  /\ openReq[a].state = "pending"
  /\ persisted.version < version
  /\ openReq' = [openReq EXCEPT ![a].state = "blocked"]
  /\ UNCHANGED << db, isReady, initPromise, calls, persisted, dbStatus, data, txQueue,
                  upgrade, mig >>

\* The other context closes its connection: the request goes on.
peer_close(a) ==
  /\ openReq[a].state = "blocked"
  /\ openReq' = [openReq EXCEPT ![a].state = "pending"]
  /\ UNCHANGED << db, isReady, initPromise, calls, persisted, dbStatus, data, txQueue,
                  upgrade, mig >>

\* The responses of the engine to the open requests, and the resumption of
\* the calls awaiting them.
EngineResponds ==
  \/ \E a \in OpenIds : onupgradeneeded(a)
  \/ \E a \in OpenIds : onsuccess(a)
  \/ \E a \in OpenIds, e \in OpenErrors \cup {DOMException("VersionError")} : onerror(a, e)
Resumes == \E c \in CallIds : settle(c)

NextOpen ==
  \/ \E c \in CallIds : init(c)
  \/ EngineResponds
  \/ Resumes
  \/ \E a \in OpenIds : onblocked(a)
  \/ \E a \in OpenIds : peer_close(a)

\* The engine answers a request it can answer and the microtask queue is
\* drained; nothing obliges the other context to close its connection.
SpecOpen ==
  Init /\ [][NextOpen]_vars /\ WF_vars(EngineResponds) /\ WF_vars(Resumes)

Blocked == \E a \in OpenIds : openReq[a].state = "blocked"

\* C36: every init() call that is made eventually resolves or rejects.
C36_EveryInitSettles ==
  \A c \in CallIds : (calls[c].op = "init") ~> Settled(c)

\* Every init() call settles or its open request is left blocked.
InitSettlesUnlessBlocked ==
  \A c \in CallIds : (calls[c].op = "init") ~> (Settled(c) \/ Blocked)

(***************************************************************************)
(* Further claims about the transaction wrapper (SpecTx)                   *)
(***************************************************************************)
\* The transaction of call c has ended: it has committed or aborted.
Ended(c) == calls[c].tx \in {"complete", "aborted"}

\* C35: a readwrite call whose transaction has ended, by a commit, after an
\* error event or by an abort without an error event, has resolved or
\* rejected.
C35_WriteSettlesHoweverTxEnds ==
  \A c \in WriteCalls : Ended(c) => Settled(c)

\* A readwrite call whose transaction has committed, or has aborted after an
\* error event of its request, has resolved or rejected.
WriteSettlesOnCommitOrError ==
  \A c \in WriteCalls :
    Ended(c) /\ (calls[c].tx = "complete" \/ calls[c].request = "error") => Settled(c)

(***************************************************************************)
(* Further claims about file storage (SpecFileURL)                         *)
(***************************************************************************)
\* Every file operation that has been called has settled.
AllSettled ==
  \A o \in OpIds : mig.ops[o].op # "none" => mig.ops[o].pc \in {"resolved", "rejected"}

\* C37: once every call has settled, the handle cache holds no entry for a
\* file id under which fileStorage holds no record.
C37_NoHandleForDeletedFile ==
  AllSettled => \A f \in FileIds : f \notin Stored => mig.urlCache[f] = Undefined

\* C37's case: createFileURL(id) was called after deleteFile(id) was called and
\* before it resolved, and returned a handle; both calls have settled and
\* the record is gone.
C37_Witness ==
  /\ AllSettled
  /\ \E d, o \in OpIds :
       /\ d < o
       /\ mig.ops[d].op = "deleteFile" /\ mig.ops[d].pc = "resolved"
       /\ mig.ops[o].op = "createFileURL" /\ mig.ops[o].fileId = mig.ops[d].fileId
       /\ ~mig.ops[o].afterDelete
       /\ mig.ops[o].value # EmptyHandle
       /\ mig.ops[d].fileId \notin Stored

(***************************************************************************)
(* SpecSync: syncToGlobal() statement by statement, and a peer context     *)
(***************************************************************************)
\* In SpecSync the variable mig holds the publication in progress: the
\* statement it is at (0: none), the init() call to return to (0: the
\* onsuccess handler), the trigger key of localStorage, the storage events
\* queued for the peer, and, as history, what the peer found under dbStatus
\* each time an event woke it.
NoSync ==
  [pc |-> 0, call |-> 0, trigger |-> Undefined, events |-> << >>, found |-> << >>,
   runs |-> 0]

\* A publication that fires the trigger first.
TriggerFirst == << "setTrigger", "removeTrigger", "setStatus" >>

\* lines 218-222: the three statements of the try block, in order.
SyncSteps == << "setStatus", "setTrigger", "removeTrigger" >>

\* line 221: Date.now().toString().
Now == [string |-> "now"]

StorageEvent(newValue) == [key |-> "dbSyncTrigger", newValue |-> newValue]

\* No publication is executing in the writer context.
Idle == mig.pc = 0

\* lines 85-88: init() on a manager that has a connection publishes and
\* returns the connection; otherwise it goes on as in EnterInit.
sync_init(c) ==
  /\ Idle
  /\ IF AlreadyInitialized
     THEN /\ NextCall(c)
          /\ calls' = [calls EXCEPT ![c] =
               [NewCall("init") EXCEPT !.pc = "syncToGlobal", !.path = "cached"]]
          /\ mig' = [mig EXCEPT !.pc = 1, !.call = c, !.runs = @ + 1]
          /\ UNCHANGED << db, isReady, initPromise, openReq, persisted, dbStatus, data,
                          txQueue, upgrade >>
     ELSE init(c)

\* lines 124-131: request.onsuccess sets db and isReady and publishes.
sync_onsuccess(a) ==
  /\ Idle
  /\ CanSucceed(a)
  /\ db' = a
  /\ isReady' = TRUE
  /\ openReq' = [openReq EXCEPT ![a].state = "succeeding"]
  /\ mig' = [mig EXCEPT !.pc = 1, !.call = 0, !.runs = @ + 1]
  /\ UNCHANGED << initPromise, calls, persisted, dbStatus, data, txQueue, upgrade >>

\* syncToGlobal returns to its caller: init() returns this.db (line 88), or
\* onsuccess resolves the attempt (line 133).
SyncReturns ==
  /\ IF mig.call = 0
     THEN /\ openReq' = [openReq EXCEPT ![db].state = "success"]
          /\ UNCHANGED calls
     ELSE /\ calls' = [calls EXCEPT ![mig.call].pc = "resolved",
                                    ![mig.call].value = Conn(db)]
          /\ UNCHANGED openReq

\* One statement of lines 218-222 is executed; after the last one the
\* publication returns.
sync_step ==
  /\ ~Idle
  /\ LET last == mig.pc = Len(SyncSteps)
         m == [mig EXCEPT !.pc = IF last THEN 0 ELSE @ + 1]
     IN
     /\ CASE SyncSteps[mig.pc] = "setStatus" ->
               /\ dbStatus' = PublishedStatus
               /\ mig' = m
          [] SyncSteps[mig.pc] = "setTrigger" ->
               /\ mig' = [m EXCEPT !.trigger = Now,
                                   !.events = Append(@, StorageEvent(Now))]
               /\ UNCHANGED dbStatus
          [] OTHER ->
               /\ mig' = [m EXCEPT !.trigger = Undefined,
                                   !.events = IF mig.trigger = Undefined THEN @
                                              ELSE Append(@, StorageEvent(Undefined))]
               /\ UNCHANGED dbStatus
     /\ IF last THEN SyncReturns ELSE UNCHANGED << calls, openReq >>
  /\ UNCHANGED << db, isReady, initPromise, persisted, data, txQueue, upgrade >>

\* lines 225-227: a setItem throws (the storage is full or denied); the
\* catch logs it and the publication returns.
sync_throws ==
  /\ ~Idle
  /\ SyncSteps[mig.pc] \in {"setStatus", "setTrigger"}
  /\ mig' = [mig EXCEPT !.pc = 0]
  /\ SyncReturns
  /\ UNCHANGED << db, isReady, initPromise, persisted, dbStatus, data, txQueue, upgrade >>

\* The peer context handles a storage event: it looks at dbStatus.
peer_storage ==
  /\ mig.events # << >>
  /\ mig' = [mig EXCEPT !.events = Tail(@), !.found = Append(@, dbStatus)]
  /\ UNCHANGED << db, isReady, initPromise, openReq, calls, persisted, dbStatus, data,
                  txQueue, upgrade >>

InitSync ==
  /\ db = 0
  /\ isReady = FALSE
  /\ initPromise = 0
  /\ openReq = [a \in OpenIds |-> NoRequest]
  /\ calls = [c \in CallIds |-> NoCall]
  /\ txQueue = << >>
  /\ upgrade = NoUpgrade
  /\ mig = NoSync
  /\ persisted = CurrentDatabase
  /\ dbStatus = Undefined
  /\ data = [s \in DataStores |-> EmptyStore]

NextSync ==
  \/ \E c \in CallIds : sync_init(c)
  \/ \E a \in OpenIds : sync_onsuccess(a)
  \/ \E a \in OpenIds, e \in OpenErrors : Idle /\ onerror(a, e)
  \/ \E c \in CallIds : Idle /\ settle(c)
  \/ sync_step
  \/ sync_throws
  \/ peer_storage

SpecSync == InitSync /\ [][NextSync]_vars

\* C31: the trigger key is set only while a publication is executing, after
\* the publication has written the status record; every storage event was
\* queued when a status record was written, so that the peer it wakes finds
\* one; and a publication executes only on an open connection.
C31_StatusBeforeTrigger ==
  /\ mig.trigger # Undefined => ~Idle /\ dbStatus = PublishedStatus
  /\ mig.events # << >> => dbStatus = PublishedStatus
  /\ \A i \in DOMAIN mig.found : mig.found[i] = PublishedStatus
  /\ ~Idle => db # 0 /\ isReady

\* C31's case: a publication has returned and the peer has handled the two
\* events of its trigger.
C31_Witness ==
  /\ Idle
  /\ mig.runs > 0
  /\ Len(mig.found) >= 2
  /\ mig.trigger = Undefined

(***************************************************************************)
(* SpecRetry: retryWithBackoff(operation, context, maxRetries)             *)
(***************************************************************************)
RECURSIVE Pow2(_)
Pow2(n) == IF n = 0 THEN 1 ELSE 2 * Pow2(n - 1)

\* A delay that doubles without a ceiling.
DelayUncapped(attempt) == 1000 * Pow2(attempt - 1)

\* line 1245: Math.min(1000 * Math.pow(2, attempt - 1), 5000).
Delay(attempt) ==
  IF 1000 * Pow2(attempt - 1) < 5000 THEN 1000 * Pow2(attempt - 1) ELSE 5000

\* The errors the operation can throw.
OperationErrors == {Error("first"), Error("second")}

\* In SpecRetry the variable mig holds the activation of retryWithBackoff:
\* where it is, maxRetries, attempt and lastError, what it settled with, and
\* as history the delays it has waited and the number of times it has
\* invoked the operation.
NoRetry ==
  [pc |-> "idle", maxRetries |-> 0, attempt |-> 0, lastError |-> Undefined,
   value |-> Undefined, error |-> Undefined, delays |-> << >>, invoked |-> 0,
   timer |-> 0]

\* lines 1233-1238 and 1253: the call enters the loop and invokes the
\* operation, or, the loop having nothing to do, throws lastError.
retryWithBackoff(maxRetries) ==
  /\ mig.pc = "idle"
  /\ mig' = IF 1 <= maxRetries
            THEN [NoRetry EXCEPT !.pc = "operation", !.maxRetries = maxRetries,
                                 !.attempt = 1, !.invoked = 1]
            ELSE [NoRetry EXCEPT !.pc = "rejected", !.maxRetries = maxRetries,
                                 !.attempt = 1, !.error = Undefined]
  /\ UNCHANGED << db, isReady, initPromise, openReq, calls, persisted, dbStatus, data,
                  txQueue, upgrade >>

\* line 1238: the operation resolves and the call returns its result.
operation_resolves(v) ==
  /\ mig.pc = "operation"
  /\ mig' = [mig EXCEPT !.pc = "resolved", !.value = v]
  /\ UNCHANGED << db, isReady, initPromise, openReq, calls, persisted, dbStatus, data,
                  txQueue, upgrade >>

\* lines 1239-1250: the operation throws; the call waits for the delay, or
\* after the last attempt throws the error.
operation_rejects(e) ==
  /\ mig.pc = "operation"
  /\ mig' = IF mig.attempt < mig.maxRetries
            THEN [mig EXCEPT !.pc = "delay", !.lastError = e,
                             !.timer = Delay(mig.attempt),
                             !.delays = Append(@, Delay(mig.attempt))]
            ELSE [mig EXCEPT !.pc = "rejected", !.lastError = e, !.error = e]
  /\ UNCHANGED << db, isReady, initPromise, openReq, calls, persisted, dbStatus, data,
                  txQueue, upgrade >>

\* lines 1246 and 1236-1238: the timer fires, and the loop invokes the
\* operation again.
timer_fires ==
  /\ mig.pc = "delay"
  /\ mig' = [mig EXCEPT !.pc = "operation", !.attempt = @ + 1, !.invoked = @ + 1,
                        !.timer = 0]
  /\ UNCHANGED << db, isReady, initPromise, openReq, calls, persisted, dbStatus, data,
                  txQueue, upgrade >>

InitRetry ==
  /\ db = 0
  /\ isReady = FALSE
  /\ initPromise = 0
  /\ openReq = [a \in OpenIds |-> NoRequest]
  /\ calls = [c \in CallIds |-> NoCall]
  /\ txQueue = << >>
  /\ upgrade = NoUpgrade
  /\ mig = NoRetry
  /\ persisted = CurrentDatabase
  /\ dbStatus = Undefined
  /\ data = [s \in DataStores |-> EmptyStore]

NextRetry ==
  \/ \E maxRetries \in 0..MaxRetries : retryWithBackoff(maxRetries)
  \/ \E v \in Vals : operation_resolves(Number(v))
  \/ \E e \in OperationErrors : operation_rejects(e)
  \/ timer_fires

\* The operation settles and the timers fire.
SpecRetry == InitRetry /\ [][NextRetry]_vars /\ WF_vars(NextRetry)

\* The waits the specification gives: before attempt 2, 3, 4, ...
ExpectedWaits == << 1000, 2000, 4000, 5000, 5000, 5000 >>

\* The operation is invoked at most maxRetries times and not
\* again after a success; the call resolves with the result of the attempt
\* that succeeded; it rejects only when maxRetries attempts have failed, and
\* with the error of the last one; and the wait before attempt n + 1 is
\* min(1000 * 2^(n-1), 5000).
RetryIsBounded ==
  /\ mig.invoked <= mig.maxRetries
  /\ mig.invoked = (IF mig.maxRetries = 0 THEN 0 ELSE mig.attempt) \/ mig.pc = "idle"
  /\ mig.pc = "rejected" =>
       /\ mig.invoked = mig.maxRetries
       /\ mig.error = mig.lastError
  /\ mig.pc = "resolved" => mig.value # Undefined /\ mig.error = Undefined
  /\ Len(mig.delays) = (IF mig.pc = "delay" THEN mig.invoked
                        ELSE IF mig.invoked = 0 THEN 0 ELSE mig.invoked - 1)
  /\ \A n \in DOMAIN mig.delays : mig.delays[n] = ExpectedWaits[n]

\* A call that has been made resolves or rejects.
RetryTerminates ==
  (mig.pc # "idle") ~> (mig.pc \in {"resolved", "rejected"})

\* C33: retryWithBackoff terminates, having invoked the operation at most
\* maxRetries times: it returns the result of the first attempt that
\* succeeds, throws the last error once maxRetries attempts have failed, and
\* waits min(1000 * 2^(n-1), 5000) ms before attempt n + 1.
C33_RetryTerminatesBounded == []RetryIsBounded /\ RetryTerminates

\* C33's case: every attempt has failed, the last wait was the capped one,
\* and the call has thrown the error of the last attempt.
C33_Witness ==
  /\ mig.pc = "rejected"
  /\ mig.invoked = MaxRetries
  /\ mig.delays[MaxRetries - 1] = 5000
  /\ mig.error = Error("second")

(***************************************************************************)
(* SpecWait: waitForReady(timeout) on a page whose manager is window.unifiedDB *)
(***************************************************************************)
\* line 313: the error of the deadline.
Timeout == Error("timeout")

\* In SpecWait the variable mig holds the activation of waitForReady: its
\* flag `resolved`, whether its storage listener is registered and its
\* timeout timer is set, the checkReady timers pending, the init() calls it
\* has made and those whose reaction has run, whether the deadline has
\* passed, the storage events queued for the page and what the promise
\* settled with.  settles counts the calls of resolve and reject, fired
\* records that the timeout timer has fired, and published counts the peer's
\* publications.
NoWait ==
  [pc |-> "idle", resolved |-> FALSE, listener |-> FALSE, timeoutId |-> FALSE,
   polls |-> 0, inits |-> {}, handled |-> {}, late |-> FALSE, events |-> 0,
   value |-> Undefined, error |-> NoError, settles |-> 0, fired |-> FALSE,
   published |-> 0]

\* lines 252-258: cleanup().
Cleanup(m) == [m EXCEPT !.listener = FALSE, !.timeoutId = FALSE]

\* lines 261-267: resolveWithCleanup(result).
resolveWithCleanup(m, result) ==
  IF m.resolved THEN m
  ELSE [Cleanup(m) EXCEPT !.resolved = TRUE, !.pc = "resolved", !.value = result,
                          !.settles = @ + 1]

\* lines 270-276: rejectWithCleanup(error).
rejectWithCleanup(m, error) ==
  IF m.resolved THEN m
  ELSE [Cleanup(m) EXCEPT !.resolved = TRUE, !.pc = "rejected", !.error = error,
                          !.settles = @ + 1]

\* line 281: syncToGlobal has copied db and isReady of the manager to window
\* (lines 205-206) in the handler that set them.
WindowReady == isReady /\ db # 0 /\ version >= 14

\* lines 289-290: the status record of localStorage says ready.
StatusReady ==
  IF dbStatus = Undefined THEN FALSE ELSE dbStatus.isReady /\ dbStatus.version >= 14

\* lines 311-318: the deadline check of checkReady and the next poll.
CheckDeadline(m) ==
  IF m.late THEN rejectWithCleanup(m, Timeout) ELSE [m EXCEPT !.polls = @ + 1]

\* lines 277-319: checkReady(), run on the activation m.
checkReady(m) ==
  IF m.resolved \/ WindowReady
  THEN /\ mig' = IF m.resolved THEN m ELSE resolveWithCleanup(m, Conn(db))
       /\ UNCHANGED << calls, initPromise, openReq, dbStatus >>
  ELSE IF StatusReady
  THEN \E c \in CallIds :
         /\ NextCall(c)
         /\ EnterInit(c, NewCall("init"))
         /\ mig' = CheckDeadline([m EXCEPT !.inits = @ \cup {c}])
  ELSE /\ mig' = CheckDeadline(m)
       /\ UNCHANGED << calls, initPromise, openReq, dbStatus >>

\* A reaction of lines 295-300 is due: an init() call made by checkReady has
\* settled.  It runs before any other event of the page.
Due == {c \in mig.inits \ mig.handled : Settled(c)}

\* lines 237-241 and 321-332: waitForReady(timeout) is called.
waitForReady ==
  /\ mig.pc = "idle"
  /\ Due = {}
  /\ checkReady([mig EXCEPT !.pc = "waiting", !.listener = TRUE, !.timeoutId = TRUE])
  /\ UNCHANGED << db, isReady, persisted, data, txQueue, upgrade >>

\* line 318 or line 246: a checkReady timer fires.
poll_fires ==
  /\ mig.polls > 0
  /\ Due = {}
  /\ checkReady([mig EXCEPT !.polls = @ - 1])
  /\ UNCHANGED << db, isReady, persisted, data, txQueue, upgrade >>

\* lines 325-327: the timeout timer fires at the deadline.
timeout_fires ==
  /\ mig.timeoutId
  /\ mig.late
  /\ Due = {}
  /\ mig' = rejectWithCleanup([mig EXCEPT !.fired = TRUE], Timeout)
  /\ UNCHANGED << db, isReady, initPromise, openReq, calls, persisted, dbStatus, data,
                  txQueue, upgrade >>

\* The deadline passes.
deadline_passes ==
  /\ mig.pc = "waiting"
  /\ ~mig.late
  /\ Due = {}
  /\ mig' = [mig EXCEPT !.late = TRUE]
  /\ UNCHANGED << db, isReady, initPromise, openReq, calls, persisted, dbStatus, data,
                  txQueue, upgrade >>

\* lines 295-300: the reaction to an init() call made by checkReady.
init_then(c) ==
  /\ c \in Due
  /\ mig' = IF calls[c].pc = "resolved"
            THEN resolveWithCleanup([mig EXCEPT !.handled = @ \cup {c}], calls[c].value)
            ELSE rejectWithCleanup([mig EXCEPT !.handled = @ \cup {c}], calls[c].error)
  /\ UNCHANGED << db, isReady, initPromise, openReq, calls, persisted, dbStatus, data,
                  txQueue, upgrade >>

\* A peer context publishes its readiness (syncToGlobal in that context): the
\* status record is written and a storage event is queued for the page.
peer_publishes ==
  /\ mig.published < MaxEvents
  /\ dbStatus' = PublishedStatus
  /\ mig' = [mig EXCEPT !.events = @ + 1, !.published = @ + 1]
  /\ UNCHANGED << db, isReady, initPromise, openReq, calls, persisted, data, txQueue,
                  upgrade >>

\* lines 243-248: the storage event reaches the page; the listener, while
\* it is registered, sets a checkReady timer.
storage_event ==
  /\ mig.events > 0
  /\ Due = {}
  /\ mig' = [mig EXCEPT !.events = @ - 1,
                        !.polls = IF mig.listener /\ ~mig.resolved THEN @ + 1 ELSE @]
  /\ UNCHANGED << db, isReady, initPromise, openReq, calls, persisted, dbStatus, data,
                  txQueue, upgrade >>

\* The page's manager is new; the database is at the current or at a later
\* version; a peer may have published already.
InitWait ==
  /\ db = 0
  /\ isReady = FALSE
  /\ initPromise = 0
  /\ openReq = [a \in OpenIds |-> NoRequest]
  /\ calls = [c \in CallIds |-> NoCall]
  /\ txQueue = << >>
  /\ upgrade = NoUpgrade
  /\ mig = NoWait
  /\ persisted \in {CurrentDatabase, NewerDatabase}
  /\ dbStatus \in {Undefined, PublishedStatus}
  /\ data = [s \in DataStores |-> EmptyStore]

NextWait ==
  \/ waitForReady
  \/ poll_fires
  \/ timeout_fires
  \/ deadline_passes
  \/ \E c \in CallIds : init_then(c)
  \/ peer_publishes
  \/ storage_event
  \/ \E c \in CallIds : Due = {} /\ init(c)
  \/ \E a \in OpenIds : Due = {} /\ onsuccess(a)
  \/ \E a \in OpenIds, e \in OpenErrors \cup {DOMException("VersionError")} :
       Due = {} /\ onerror(a, e)
  \/ \E c \in CallIds : Due = {} /\ settle(c)

SpecWait == InitWait /\ [][NextWait]_vars

\* resolve or reject has been called at most once; once the call has
\* settled its listener and its timeout timer are removed; a call that has
\* resolved holds the connection of the manager; the call has settled when
\* the timeout timer has fired.
WaitSettlesOnce ==
  /\ mig.settles <= 1
  /\ mig.settles = 1 <=> mig.pc \in {"resolved", "rejected"}
  /\ mig.pc \in {"resolved", "rejected"} => ~mig.listener /\ ~mig.timeoutId
  /\ mig.pc = "resolved" => isReady /\ mig.value = Conn(db)
  /\ mig.fired => mig.pc \in {"resolved", "rejected"}

\* C32: a waitForReady call settles once, at the latest when its timeout
\* timer fires, with its listener and its timer removed; it resolves with
\* the ready connection or else rejects with the Timeout error.
C32_ReadyOrTimeout ==
  /\ WaitSettlesOnce
  /\ mig.pc = "rejected" => mig.error = Timeout

\* A call that rejects rejects with the Timeout error or with the error of
\* an init() call that checkReady made.
RejectsWithTimeoutOrInitError ==
  /\ WaitSettlesOnce
  /\ mig.pc = "rejected" =>
       \/ mig.error = Timeout
       \/ \E c \in mig.handled : calls[c].pc = "rejected" /\ calls[c].error = mig.error

(***************************************************************************)
(* SpecKeys: setKeyEnabled, addKeyToConfig and removeKeyFromConfig of      *)
(* APIConfigManager                                                        *)
(***************************************************************************)
KeyOpIds == 1..MaxKeyOps

\* The key indexes callers pass: one below the list, the positions, and one
\* past the longest list.
KeyIndexes == (0 - 1)..MaxKeys

ConfigIds == {"config_1", "config_2"}

\* An entry of config.apiKeys.
ApiKey(key, enabled, index) == [key |-> key, enabled |-> enabled, index |-> index]

\* The lists with exactly one enabled key and every index at its position.
KeyList(n, on) == [i \in 1..n |-> ApiKey(i, i = on, i - 1)]
ValidLists == {KeyList(n, on) : n \in 1..(MaxKeys - 1), on \in 1..(MaxKeys - 1)}
                \ {KeyList(1, 2)}

Thrown(msg) == [threw |-> TRUE, error |-> Error(msg), apiKeys |-> << >>]
Returned(apiKeys) == [threw |-> FALSE, error |-> NoError, apiKeys |-> apiKeys]

AnyEnabled(apiKeys) == \E i \in DOMAIN apiKeys : apiKeys[i].enabled

\* A range check on both sides of the list.
OutOfRange(keyIndex, length) == keyIndex < 0 \/ keyIndex >= length

\* lines 374 and 445: keyIndex >= config.apiKeys.length.
PastTheEnd(keyIndex, length) == keyIndex >= length

\* lines 373-391: setKeyEnabled on the apiKeys of the configuration read;
\* config is Undefined when getConfigById returned null.  With a negative
\* keyIndex, apiKeys[keyIndex] is undefined: line 385 throws a TypeError,
\* while the forEach of lines 380-382 matches no position.
SetKeyEnabled(config, keyIndex, enabled) ==
  IF config = Undefined THEN Thrown("no such config or key")
  ELSE IF PastTheEnd(keyIndex, Len(config.apiKeys)) THEN Thrown("no such config or key")
  ELSE IF enabled
  THEN Returned([i \in DOMAIN config.apiKeys |->
                   [config.apiKeys[i] EXCEPT !.enabled = (i - 1 = keyIndex)]])
  ELSE IF keyIndex < 0 THEN Thrown("TypeError")
  ELSE LET off == [config.apiKeys EXCEPT ![keyIndex + 1].enabled = FALSE] IN
       IF ~AnyEnabled(off) /\ Len(off) > 0
       THEN Returned([off EXCEPT ![1].enabled = TRUE])
       ELSE Returned(off)

\* lines 414-428: addKeyToConfig.
AddKeyToConfig(config, keyValue) ==
  IF config = Undefined THEN Thrown("no such config")
  ELSE Returned(Append(config.apiKeys, ApiKey(keyValue, FALSE, Len(config.apiKeys))))

\* lines 444-462: removeKeyFromConfig.  With a negative keyIndex removedKey is
\* undefined and line 460 throws a TypeError.
RemoveKeyFromConfig(config, keyIndex) ==
  IF config = Undefined THEN Thrown("no such config or key")
  ELSE IF PastTheEnd(keyIndex, Len(config.apiKeys)) THEN Thrown("no such config or key")
  ELSE IF Len(config.apiKeys) <= 1 THEN Thrown("at least one key")
  ELSE IF keyIndex < 0 THEN Thrown("TypeError")
  ELSE LET rest == [i \in 1..(Len(config.apiKeys) - 1) |->
                      IF i <= keyIndex THEN config.apiKeys[i] ELSE config.apiKeys[i + 1]]
           renumbered == [i \in DOMAIN rest |-> [rest[i] EXCEPT !.index = i - 1]]
       IN
       IF config.apiKeys[keyIndex + 1].enabled /\ Len(renumbered) > 0
       THEN Returned([renumbered EXCEPT ![1].enabled = TRUE])
       ELSE Returned(renumbered)

\* In SpecKeys the variable mig holds the configurations of the apiSettings
\* store, each with its apiKeys (Undefined: no such configuration), and the
\* activations of the three functions; txQueue holds the activations whose
\* transaction is live, in creation order.  read and puts are history.
NoKeyOp ==
  [op |-> "none", pc |-> "idle", configId |-> "", keyIndex |-> 0, enabled |-> FALSE,
   config |-> Undefined, read |-> Undefined, error |-> NoError, puts |-> 0]
NoKeys(list) ==
  [stored |-> [id \in ConfigIds |-> IF id = "config_1" THEN [apiKeys |-> list]
                                ELSE Undefined],
   ops |-> [o \in KeyOpIds |-> NoKeyOp]]

NextKeyOp(o) ==
  /\ mig.ops[o].op = "none"
  /\ \A q \in KeyOpIds : q < o => mig.ops[q].op # "none"

KeyFrame == UNCHANGED << db, isReady, initPromise, openReq, calls, persisted, dbStatus,
                         data, upgrade >>

\* lines 372-373, 413-414 and 443-444: one of the functions is called and
\* getConfigById opens its readonly transaction.
KeyCall(o, op, configId, keyIndex, enabled) ==
  /\ NextKeyOp(o)
  /\ mig' = [mig EXCEPT !.ops[o] =
               [NoKeyOp EXCEPT !.op = op, !.pc = "get", !.configId = configId,
                               !.keyIndex = keyIndex, !.enabled = enabled]]
  /\ txQueue' = Append(txQueue, o)
  /\ KeyFrame

setKeyEnabled(o, configId, keyIndex, enabled) ==
  KeyCall(o, "setKeyEnabled", configId, keyIndex, enabled)
addKeyToConfig(o, configId) ==
  KeyCall(o, "addKeyToConfig", configId, 0, FALSE)
removeKeyFromConfig(o, configId, keyIndex) ==
  KeyCall(o, "removeKeyFromConfig", configId, keyIndex, FALSE)

\* What the function of activation o makes of the configuration it read.
KeyOutcome(rec, config) ==
  CASE rec.op = "setKeyEnabled" -> SetKeyEnabled(config, rec.keyIndex, rec.enabled)
    [] rec.op = "addKeyToConfig" ->
         AddKeyToConfig(config, IF config = Undefined THEN 1 ELSE Len(config.apiKeys) + 1)
    [] OTHER -> RemoveKeyFromConfig(config, rec.keyIndex)

\* The get of getConfigById succeeds: the function throws, or changes its
\* copy and puts it in a readwrite transaction (lines 393-396, 430-433 and
\* 467-470).
key_get_onsuccess(o) ==
  /\ Running(o)
  /\ mig.ops[o].pc = "get"
  /\ LET config == mig.stored[mig.ops[o].configId]
         out == KeyOutcome(mig.ops[o], config)
     IN
     /\ out.threw \/ Len(out.apiKeys) <= MaxKeys
     /\ IF out.threw
        THEN /\ mig' = [mig EXCEPT !.ops[o].pc = "rejected", !.ops[o].read = config,
                                   !.ops[o].error = out.error]
             /\ txQueue' = Tail(txQueue)
        ELSE /\ mig' = [mig EXCEPT !.ops[o].pc = "put", !.ops[o].read = config,
                                   !.ops[o].config = [apiKeys |-> out.apiKeys]]
             /\ txQueue' = Append(Tail(txQueue), o)
  /\ KeyFrame

\* The put succeeds and the function returns the configuration.
key_put_onsuccess(o) ==
  /\ Running(o)
  /\ mig.ops[o].pc = "put"
  /\ mig' = [mig EXCEPT !.stored[mig.ops[o].configId] = mig.ops[o].config,
                        !.ops[o].pc = "resolved", !.ops[o].puts = @ + 1]
  /\ txQueue' = Tail(txQueue)
  /\ KeyFrame

\* A request fails: the function rejects and nothing is stored.
key_request_onerror(o) ==
  /\ Running(o)
  /\ mig.ops[o].pc \in {"get", "put"}
  /\ mig' = [mig EXCEPT !.ops[o].pc = "rejected",
                        !.ops[o].error = DOMException("UnknownError")]
  /\ txQueue' = Tail(txQueue)
  /\ KeyFrame

InitKeys ==
  /\ Opened
  /\ data = [s \in DataStores |-> EmptyStore]
  /\ \E list \in ValidLists : mig = NoKeys(list)

NextKeys ==
  \/ \E o \in KeyOpIds, id \in ConfigIds, keyIndex \in KeyIndexes, enabled \in BOOLEAN :
       setKeyEnabled(o, id, keyIndex, enabled)
  \/ \E o \in KeyOpIds, id \in ConfigIds : addKeyToConfig(o, id)
  \/ \E o \in KeyOpIds, id \in ConfigIds, keyIndex \in KeyIndexes :
       removeKeyFromConfig(o, id, keyIndex)
  \/ \E o \in KeyOpIds : key_get_onsuccess(o)
  \/ \E o \in KeyOpIds : key_put_onsuccess(o)
  \/ \E o \in KeyOpIds : key_request_onerror(o)

SpecKeys == InitKeys /\ [][NextKeys]_vars

\* The list is non-empty, exactly one key is enabled and every index is the
\* position.
ValidKeys(apiKeys) ==
  /\ Len(apiKeys) > 0
  /\ Cardinality({i \in DOMAIN apiKeys : apiKeys[i].enabled}) = 1
  /\ \A i \in DOMAIN apiKeys : apiKeys[i].index = i - 1

\* The call of activation o fails its precondition on the configuration it
\* read: the configuration is unknown, the index is out of range, or the
\* last key is to be removed.
FailsPrecondition(rec) ==
  \/ rec.read = Undefined
  \/ /\ rec.op # "addKeyToConfig"
     /\ IF rec.read = Undefined THEN TRUE
        ELSE OutOfRange(rec.keyIndex, Len(rec.read.apiKeys))
  \/ /\ rec.op = "removeKeyFromConfig"
     /\ IF rec.read = Undefined THEN TRUE ELSE Len(rec.read.apiKeys) <= 1

\* Every call that failed its precondition has rejected and stored nothing.
FailedCallsStoreNothing ==
  \A o \in KeyOpIds :
    mig.ops[o].pc \in {"put", "resolved", "rejected"} /\ FailsPrecondition(mig.ops[o]) =>
      mig.ops[o].pc = "rejected" /\ mig.ops[o].puts = 0

\* C39: the stored list of the configuration stays non-empty with exactly
\* one key enabled and every index at its position, and a call that fails
\* its precondition stores nothing.
C39_OneEnabledKey ==
  /\ ValidKeys(mig.stored["config_1"].apiKeys)
  /\ FailedCallsStoreNothing

\* The same, as long as no call was made with a negative keyIndex.
OneEnabledKeyForNaturalIndexes ==
  (\A o \in KeyOpIds : mig.ops[o].keyIndex >= 0) =>
     /\ ValidKeys(mig.stored["config_1"].apiKeys)
     /\ FailedCallsStoreNothing

(***************************************************************************)
(* SpecRepair: DatabaseManager.checkAndOfferRepair and repairDatabase      *)
(***************************************************************************)
\* lines 1491-1496: expectedStores.
expectedStores ==
  {"contacts", "apiSettings", "emojis", "backgrounds", "userProfile", "moments",
   "weiboPosts", "hashtagCache", "characterMemories", "globalMemory",
   "conversationCounters", "memoryProcessedIndex", "themeConfig"}

\* A database at the current version that lacks one of the expected stores.
DamagedDatabase == [version |-> version, stores |-> LayoutOf(StoreNames \ {"themeConfig"})]

\* lines 1498-1501: the expected stores the connection does not have.
missingStores == {s \in expectedStores : ~contains(persisted.stores, s)}

\* In SpecRepair the variable mig holds the activation of the health check:
\* where it is, the missing stores it found, the init() call of
\* repairDatabase, its result, and the connections that have been closed.
NoRepair ==
  [pc |-> "idle", missing |-> {}, call |-> 0, result |-> Undefined, closed |-> {},
   repaired |-> FALSE]

Result(success) == [success |-> success]

\* lines 1539-1541: the connection the manager holds is closed.
CloseConnection(m) == [m EXCEPT !.closed = IF db # 0 THEN @ \cup {db} ELSE @]

\* lines 1534-1562: repairDatabase(missing) closes the connection and awaits
\* init(); when init() returns at once (lines 85-88) it reports success.
repairDatabase(c, m, missing) ==
  /\ NextCall(c)
  /\ EnterInit(c, NewCall("init"))
  /\ mig' = IF calls'[c].pc = "resolved"
            THEN [CloseConnection(m) EXCEPT !.pc = "done", !.missing = missing,
                                            !.call = c, !.repaired = TRUE,
                                            !.result = Result(TRUE)]
            ELSE [CloseConnection(m) EXCEPT !.pc = "init", !.missing = missing,
                                            !.call = c, !.repaired = TRUE]

\* lines 1481-1527: checkAndOfferRepair(); answer is what the listener of
\* database:repairNeeded resolves the offer with.
checkAndOfferRepair(c, answer) ==
  /\ mig.pc = "idle"
  /\ IF ~isReady
     THEN /\ mig' = [mig EXCEPT !.pc = "done", !.result = Result(FALSE)]
          /\ UNCHANGED << calls, initPromise, openReq, dbStatus >>
     ELSE IF missingStores = {}
     THEN /\ mig' = [mig EXCEPT !.pc = "done", !.result = Result(TRUE)]
          /\ UNCHANGED << calls, initPromise, openReq, dbStatus >>
     ELSE IF answer
     THEN repairDatabase(c, mig, missingStores)
     ELSE /\ mig' = [mig EXCEPT !.pc = "done", !.missing = missingStores,
                                !.result = Result(FALSE)]
          /\ UNCHANGED << calls, initPromise, openReq, dbStatus >>
  /\ UNCHANGED << db, isReady, persisted, data, txQueue, upgrade >>

\* repairDatabase is called on its own.
repairDatabase_call(c) ==
  /\ mig.pc = "idle"
  /\ repairDatabase(c, mig, missingStores)
  /\ UNCHANGED << db, isReady, persisted, data, txQueue, upgrade >>

\* lines 1544-1560: the init() call of repairDatabase has settled.
repairDatabase_resume ==
  /\ mig.pc = "init"
  /\ Settled(mig.call)
  /\ mig' = [mig EXCEPT !.pc = "done",
                        !.result = Result(calls[mig.call].pc = "resolved")]
  /\ UNCHANGED << db, isReady, initPromise, openReq, calls, persisted, dbStatus, data,
                  txQueue, upgrade >>

InitRepair ==
  /\ db = 0
  /\ isReady = FALSE
  /\ initPromise = 0
  /\ openReq = [a \in OpenIds |-> NoRequest]
  /\ calls = [c \in CallIds |-> NoCall]
  /\ txQueue = << >>
  /\ upgrade = NoUpgrade
  /\ mig = NoRepair
  /\ persisted \in {CurrentDatabase, DamagedDatabase}
  /\ dbStatus = Undefined
  /\ data = [s \in DataStores |-> EmptyStore]

\* The other actions leave the activation of the health check alone.
NextRepair ==
  \/ \E c \in CallIds : init(c)
  \/ \E a \in OpenIds : onsuccess(a)
  \/ \E a \in OpenIds, e \in OpenErrors : onerror(a, e)
  \/ \E c \in CallIds : settle(c)
  \/ \E c \in CallIds, answer \in BOOLEAN : checkAndOfferRepair(c, answer)
  \/ \E c \in CallIds : repairDatabase_call(c)
  \/ repairDatabase_resume

SpecRepair == InitRepair /\ [][NextRepair]_vars

\* C38: the init() call of repairDatabase does not resolve with a connection
\* that has been closed; once the repair has returned, the connection the
\* manager holds is open; and the repair reports success only if the stores
\* that were missing exist.
C38_RepairReopensConnection ==
  /\ mig.call # 0 =>
       (calls[mig.call].pc = "resolved" =>
          calls[mig.call].value.connection \notin mig.closed)
  /\ mig.pc = "done" /\ mig.repaired => db \notin mig.closed
  /\ mig.pc = "done" /\ mig.repaired =>
       (mig.result.success => \A s \in mig.missing : contains(persisted.stores, s))

\* A repair reports success exactly when its init() call has resolved.
RepairReportsInitOutcome ==
  mig.pc = "done" /\ mig.repaired =>
    (mig.result.success <=> calls[mig.call].pc = "resolved")
====
